---- MODULE Spec2Model ----
(***************************************************************************)
(* fiat-lux visualizer: the chat route (mode selection, context assembly,  *)
(* response parsing), the chat sidebar session (initial generation, turns, *)
(* cancellation, pending auto-messages, state saves) and the JSON store.   *)
(*                                                                         *)
(* Texts are sequences of lexical tokens.  In a model response the tokens  *)
(* are: MARKER = the HTML marker, FENCE = three backquotes, TAG = a case   *)
(* variant of htm or html, NL = newline, SP = blank, anything else = a     *)
(* run of ordinary characters.  In an instruction the tokens are its       *)
(* whitespace-separated words.  JSON null is the one-token text Null.      *)
(***************************************************************************)
EXTENDS Integers, Sequences, FiniteSets, TLC

\* ---------------------------------------------------------------- bounds
MaxTextLen == 6
MaxWords == 3
MaxReq == 2
MaxSources == 1
MaxReloads == 1
MaxSaves == 2
MaxJsonLen == 4
MaxUploads == 1
MaxOps == 2

\* ---------------------------------------------------------------- tokens
MARKER == "---HTML---"
FENCE == "<fence>"
TAG == "html"
NL == "\n"
SP == " "
Null == <<"<null>">>

VARIABLES
  storage,            \* content of storage.json: document id -> record
  chat,               \* /api/chat requests, in arrival order
  visualization,      \* InteractiveView state: displayed markup
  messages,           \* ChatSidebar state: transcript
  isLoading,          \* InteractiveView state
  abortControllerRef, \* 0 = null, else the request whose signal it controls
  hasInitialized,     \* ChatSidebar state
  pendingMessage,     \* InteractiveView state: auto-message, <<>> = null
  invs,               \* activations of loadOrGenerate / sendMessageWithContent
  reloads,            \* page loads so far
  intents,            \* user-initiated generation requests so far
  settled,            \* outcome of the activation that finished last
  ops,                \* store operations between getStorage and saveStorage
  lastSave,           \* the state save whose saveStorage ran last
  upload,             \* /api/files POST requests (new documents), in arrival order
  created,            \* document id -> the category it was created with
  viewer              \* VisualizationViewer state and its /api/export-csv request

vars == <<storage, chat, visualization, messages, isLoading,
          abortControllerRef, hasInitialized, pendingMessage, invs,
          reloads, intents, settled, ops, lastSave, upload, created, viewer>>

clientVars == <<visualization, messages, isLoading, abortControllerRef,
                hasInitialized, pendingMessage, invs, reloads, intents,
                settled>>

serverVars == <<storage, ops, lastSave>>

\* the files route and the table export
sideVars == <<upload, created, viewer>>

\* ---------------------------------------------------------- text helpers
IsWs(t) == t \in {SP, NL}

RECURSIVE TrimStart(_)
TrimStart(s) ==
  IF s # <<>> /\ IsWs(Head(s)) THEN TrimStart(Tail(s)) ELSE s

RECURSIVE TrimEnd(_)
TrimEnd(s) ==
  IF s # <<>> /\ IsWs(s[Len(s)]) THEN TrimEnd(SubSeq(s, 1, Len(s) - 1)) ELSE s

\* String.prototype.trim
Trim(s) == TrimEnd(TrimStart(s))

\* String.prototype.indexOf for a one-token needle; 0 = not found (-1)
IndexOf(s, t) ==
  IF \E i \in 1..Len(s) : s[i] = t
  THEN CHOOSE i \in 1..Len(s) : s[i] = t /\ \A j \in 1..(i - 1) : s[j] # t
  ELSE 0

Truthy(v) == v # Null /\ v # <<>>

\* html.replace(opening fence regex): three backquotes, then htm or html,
\* then an optional newline, at the start of the text; a fence that is not
\* followed by the tag does not match
StripOpeningFence(s) ==
  IF Len(s) >= 2 /\ s[1] = FENCE /\ s[2] = TAG
  THEN IF Len(s) >= 3 /\ s[3] = NL
       THEN SubSeq(s, 4, Len(s))
       ELSE SubSeq(s, 3, Len(s))
  ELSE s

\* html.replace(closing fence regex): an optional newline and three
\* backquotes at the very end of the text
StripClosingFence(s) ==
  IF Len(s) >= 1 /\ s[Len(s)] = FENCE
  THEN IF Len(s) >= 2 /\ s[Len(s) - 1] = NL
       THEN SubSeq(s, 1, Len(s) - 2)
       ELSE SubSeq(s, 1, Len(s) - 1)
  ELSE s

\* Response parsing of the chat route (the same text in both branches)
ParseResponse(responseText) ==
  LET markerIndex == IndexOf(responseText, MARKER) IN
  IF markerIndex = 0
  THEN [visualization |-> Null, message |-> Trim(responseText)]
  ELSE LET chatMessage == Trim(SubSeq(responseText, 1, markerIndex - 1))
           html0 == Trim(SubSeq(responseText, markerIndex + 1, Len(responseText)))
           html1 == StripClosingFence(StripOpeningFence(html0))
       IN [visualization |-> Trim(html1), message |-> chatMessage]

\* ------------------------------------------------------- mode selection
\* The i flag: words are compared in lower case
Lower(w) ==
  CASE w = "Reload" -> "reload"
    [] w = "ALL" -> "all"
    [] w = "New" -> "new"
    [] w = "Please" -> "please"
    [] w = "Create" -> "create"
    [] w = "Make" -> "make"
    [] OTHER -> w

\* One pattern = a sequence of slots; a slot matches one word out of alts,
\* and an optional slot may match nothing (the \s+ between slots is the
\* word boundary).
Slot(alts) == [alts |-> alts, opt |-> FALSE]
OptSlot(alts) == [alts |-> alts, opt |-> TRUE]

NEEDS_FULL_CONTEXT_PATTERNS ==
  << <<Slot({"reread", "re-read"})>>,
     <<Slot({"original"}), Slot({"data", "document", "file"})>>,
     <<Slot({"all"}), OptSlot({"the"}), Slot({"data", "items", "courses", "entries"})>>,
     <<Slot({"missing"}), Slot({"data", "items", "courses", "entries"})>>,
     <<Slot({"from"}), OptSlot({"the"}), Slot({"source", "document", "file"})>>,
     <<Slot({"dont", "don't"}), Slot({"see"})>>,
     <<Slot({"where"}), Slot({"is", "are"})>>,
     <<Slot({"repopulate"})>>,
     <<Slot({"reload"})>>,
     <<Slot({"start"}), Slot({"over"})>>,
     <<Slot({"regenerate"})>> >>

RECURSIVE MatchAt(_, _, _)
MatchAt(pat, words, i) ==
  IF pat = <<>> THEN TRUE
  ELSE \/ /\ i <= Len(words)
          /\ Lower(words[i]) \in Head(pat).alts
          /\ MatchAt(Tail(pat), words, i + 1)
       \/ /\ Head(pat).opt
          /\ MatchAt(Tail(pat), words, i)

\* pattern.test(message)
PatternTest(pat, words) == \E i \in 1..Len(words) : MatchAt(pat, words, i)

NeedsFullContext(message) ==
  \E p \in 1..Len(NEEDS_FULL_CONTEXT_PATTERNS) :
    PatternTest(NEEDS_FULL_CONTEXT_PATTERNS[p], message)

\* IsRefinement without the needs-full-context test
IsRefinementNoIntent(currentVisualization, history, message) ==
  /\ Truthy(currentVisualization)
  /\ Len(history) > 0

IsRefinement(currentVisualization, history, message) ==
  /\ Truthy(currentVisualization)
  /\ Len(history) > 0
  /\ ~NeedsFullContext(message)

\* ------------------------------------------------------------ the store
FileId == "d1"

\* an ImportedFile; structured is Null when the record has no such field
Doc(name, type, text, sources) ==
  [displayName |-> name, fileType |-> type, text |-> text,
   structured |-> Null,
   visualization |-> <<>>, chatHistory |-> <<>>, sourceFiles |-> sources]

SourceFile(name, text) == [originalName |-> name, text |-> text]

\* storage.json after the upload of two documents (files route, POST)
InitStorage ==
  [id \in {"d1", "d2"} |->
     IF id = "d1"
     THEN Doc("Doc1", "invoice", <<"text1">>, <<SourceFile("a.csv", <<"src-a">>)>>)
     ELSE [Doc("Doc2", "schedule", <<"text2">>, <<>>)
             EXCEPT !.structured = <<"structured2">>]]

\* getFile: storage.files.find(...) || null
HasFile(st, id) == id \in DOMAIN st

\* StateOf without the markup
StateOfWithoutMarkup(st, id) ==
  [visualization |-> Null, chatHistory |-> st[id].chatHistory]

\* state route, GET: file.visualization || null, file.chatHistory || []
StateOf(st, id) ==
  [visualization |-> IF Truthy(st[id].visualization) THEN st[id].visualization ELSE Null,
   chatHistory |-> st[id].chatHistory]

\* ------------------------------------------------------- the chat route
Section(kind, label, text) == [kind |-> kind, label |-> label, text |-> text]

RECURSIVE SourceFilesContext(_)
SourceFilesContext(sfs) ==
  IF sfs = <<>> THEN <<>>
  ELSE <<Section("source", Head(sfs).originalName, Head(sfs).text)>>
       \o SourceFilesContext(Tail(sfs))

RECURSIVE AdditionalContext(_, _)
AdditionalContext(st, ids) ==
  IF ids = <<>> THEN <<>>
  ELSE (IF HasFile(st, Head(ids))
        THEN <<Section("additional", st[Head(ids)].displayName, st[Head(ids)].text)>>
        ELSE <<>>)
       \o AdditionalContext(st, Tail(ids))

\* contextMessage followed by the user request part
FullRequest(st, req) ==
  LET file == st[req.fileId] IN
  <<Section("header", file.displayName, <<file.fileType>>),
    Section("content", "", file.text)>>
  \o SourceFilesContext(file.sourceFiles)
  \o AdditionalContext(st, req.additionalFileIds)
  \o (IF Truthy(req.currentVisualization)
      THEN <<Section("markup", "", req.currentVisualization)>>
      ELSE <<>>)
  \o <<Section("request", "", req.message)>>

\* a mutation of RefinementRequest: the transcript is sent along
RefinementRequestWithHistory(req) ==
  [k \in 1..Len(req.history) |-> Section("history", "", <<>>)]
  \o <<Section("markup", "", req.currentVisualization),
       Section("request", "", req.message)>>

\* the single user message of the refinement branch
RefinementRequest(req) ==
  <<Section("markup", "", req.currentVisualization),
    Section("request", "", req.message)>>

NewRequest(fileId, message, history, currentVisualization, additionalFileIds) ==
  [fileId |-> fileId, message |-> message, history |-> history,
   currentVisualization |-> currentVisualization,
   additionalFileIds |-> additionalFileIds,
   stage |-> "received", mode |-> "", calls |-> 0, system |-> "",
   sent |-> <<>>, text |-> <<>>, status |-> 0,
   visualization |-> Null, reply |-> <<>>]

Respond(req, status) == [req EXCEPT !.stage = "done", !.status = status]

\* a request whose fetch has settled on the client
Consumed == [NewRequest("", <<>>, <<>>, <<>>, <<>>) EXCEPT !.stage = "consumed"]

\* POST up to its first await: validation, mode selection and, in the
\* refinement branch, the model call
ChatStart(r) ==
  /\ r \in 1..Len(chat)
  /\ chat[r].stage = "received"
  /\ LET req == chat[r] IN
     chat' = [chat EXCEPT ![r] =
       IF req.fileId = "" \/ req.message = <<>>
       THEN Respond(req, 400)
       ELSE IF IsRefinement(req.currentVisualization, req.history, req.message)
       THEN [req EXCEPT !.stage = "calling", !.mode = "Refining",
                        !.calls = req.calls + 1,
                        !.system = "REFINEMENT_SYSTEM_PROMPT",
                        !.sent = RefinementRequest(req)]
       ELSE [req EXCEPT !.stage = "loading", !.mode = "NeedsContext"]]
  /\ UNCHANGED <<storage, clientVars, ops, lastSave, sideVars>>

\* Full context flow: getFile, the contents, contextMessage, the model call
ChatLoad(r) ==
  /\ r \in 1..Len(chat)
  /\ chat[r].stage = "loading"
  /\ LET req == chat[r] IN
     chat' = [chat EXCEPT ![r] =
       IF ~HasFile(storage, req.fileId)
       THEN Respond(req, 404)
       ELSE [req EXCEPT !.stage = "calling", !.calls = req.calls + 1,
                        !.system = "SYSTEM_PROMPT",
                        !.sent = FullRequest(storage, req)]]
  /\ UNCHANGED <<storage, clientVars, ops, lastSave, sideVars>>

\* anthropic.messages.create resolves with a text block: response parsing
ModelRespond(r, responseText) ==
  /\ r \in 1..Len(chat)
  /\ chat[r].stage = "calling"
  /\ LET parsed == ParseResponse(responseText) IN
     chat' = [chat EXCEPT ![r] =
       [Respond(chat[r], 200) EXCEPT !.text = responseText,
                                     !.visualization = parsed.visualization,
                                     !.reply = parsed.message]]
  /\ UNCHANGED <<storage, clientVars, ops, lastSave, sideVars>>

\* ModelFail with the call made again
ModelFailRetried(r) ==
  /\ r \in 1..Len(chat)
  /\ chat[r].stage = "calling"
  /\ chat' = [chat EXCEPT ![r] =
       IF chat[r].calls < 2
       THEN [chat[r] EXCEPT !.calls = chat[r].calls + 1]
       ELSE Respond(chat[r], 500)]
  /\ UNCHANGED <<storage, clientVars, ops, lastSave, sideVars>>

\* anthropic.messages.create throws, or the first block is not text
ModelFail(r) ==
  /\ r \in 1..Len(chat)
  /\ chat[r].stage = "calling"
  /\ chat' = [chat EXCEPT ![r] = Respond(chat[r], 500)]
  /\ UNCHANGED <<storage, clientVars, ops, lastSave, sideVars>>

\* --------------------------------------------------- the store, writes
\* UpdateFileState without the assignment of chatHistory
UpdateFileStateMarkupOnly(st, id, viz, chatHistory) ==
  IF HasFile(st, id)
  THEN [st EXCEPT ![id].visualization = viz]
  ELSE st

\* updateFileState on the storage object it read
UpdateFileState(st, id, viz, chatHistory) ==
  IF HasFile(st, id)
  THEN [st EXCEPT ![id].visualization = viz, ![id].chatHistory = chatHistory]
  ELSE st

\* addSourceFile on the storage object it read
AddSourceFile(st, id, text, name) ==
  IF HasFile(st, id)
  THEN [st EXCEPT ![id].sourceFiles = Append(@, SourceFile(name, text))]
  ELSE st

\* ------------------------------------------------------ the chat sidebar
Entry(role, content) == [role |-> role, content |-> content]

InitialPrompt ==
  <<"Create", "an", "initial", "visualization", "for", "this", "document.",
    "Make", "it", "clear,", "informative,", "and", "visually", "appealing.">>
InitDefaultReply == <<"Created an initial visualization. How would you like me to modify it?">>
InitCancelNotice == <<"Generation cancelled. Describe how you'd like to visualize your data.">>
InitApology == <<"I had trouble generating the initial visualization. Please describe how you'd like to see your data displayed.">>
TurnDefaultReply == <<"Updated the visualization.">>
TurnCancelNotice == <<"Cancelled. What would you like to do instead?">>
TurnApology == <<"Sorry, I had trouble updating the visualization. Please try again.">>

\* uploadAdditionalFiles: the auto-update messages
NewDataMessage(fileNames) ==
  <<"New", "data", "files", "added:", fileNames, "Please", "incorporate",
    "this", "new", "data", "into", "the", "existing", "visualization.">>
CreateWithFilesMessage(fileNames) ==
  <<"Create", "an", "initial", "visualization", "including", "the", "new",
    "files:", fileNames>>

\* what the user types into the textarea
UserMessages == { <<"Make", "it", "blue">>, <<"Reload", "the", "items">> }

\* what the model answers: an answer, an update, a fenced update, a
\* delimiter followed by nothing, an update without a description
ModelTexts ==
  { <<"answer">>,
    <<"changed", NL, MARKER, NL, "<div>1</div>">>,
    <<"changed", MARKER, FENCE, TAG, NL, "<div>2</div>", NL, FENCE>>,
    <<"changed", MARKER, NL>>,
    <<MARKER, "<div>3</div>">> }

UploadNames == {"b.csv"}

NoResponse == [text |-> <<>>, visualization |-> Null, message |-> <<>>]

\* data of a chat response that is ok
ResponseData(req) ==
  [text |-> req.text, visualization |-> req.visualization, message |-> req.reply]

Activation(id, kind, stage) ==
  [id |-> id, kind |-> kind, stage |-> stage, aborted |-> FALSE,
   newMessages |-> <<>>, currentVisualization |-> <<>>,
   saveViz |-> <<>>, saveMsgs |-> <<>>, outcome |-> "",
   userMessage |-> <<>>, response |-> NoResponse,
   preStored |-> storage[FileId].visualization,
   preShown |-> visualization, preMessages |-> messages]

Settle(i, kind) == [n |-> settled.n + 1, kind |-> kind, of |-> i]

\* Finally without the reset of the abort controller
FinallyKeepsController(i) ==
  /\ isLoading' = FALSE
  /\ abortControllerRef' = abortControllerRef
  /\ invs' = invs \ {i}

\* the finally blocks of loadOrGenerate and sendMessageWithContent
Finally(i) ==
  /\ isLoading' = FALSE
  /\ abortControllerRef' = 0
  /\ invs' = invs \ {i}

\* the fetch of activation i has settled
FetchSettled(i) == chat' = [chat EXCEPT ![i.id] = Consumed]

\* useEffect of ChatSidebar: loadOrGenerate up to the fetch of the state
LoadOrGenerate ==
  /\ ~hasInitialized
  /\ hasInitialized' = TRUE
  /\ isLoading' = TRUE
  /\ invs' = invs \cup {Activation(0, "init", "state")}
  /\ intents' = intents + 1
  /\ UNCHANGED <<storage, chat, visualization, messages, abortControllerRef,
                 pendingMessage, reloads, settled, ops, lastSave, sideVars>>

\* the state response: use the saved state, or start the initial generation
StateLoaded(i) ==
  /\ i \in invs /\ i.kind = "init" /\ i.stage = "state"
  /\ LET ok == HasFile(storage, FileId)
         state == StateOf(storage, FileId)
     IN IF ok /\ Truthy(state.visualization)
        THEN /\ visualization' = state.visualization
             /\ messages' = state.chatHistory
             /\ isLoading' = FALSE
             /\ invs' = invs \ {i}
             /\ settled' = Settle(i, "restored")
             /\ UNCHANGED <<chat, abortControllerRef>>
        ELSE /\ Len(chat) < MaxReq
             /\ abortControllerRef' = Len(chat) + 1
             /\ chat' = Append(chat, NewRequest(FileId, InitialPrompt, <<>>, <<>>, <<>>))
             /\ invs' = (invs \ {i}) \cup {[i EXCEPT !.id = Len(chat) + 1, !.stage = "chat"]}
             /\ UNCHANGED <<visualization, messages, isLoading, settled>>
  /\ UNCHANGED <<storage, hasInitialized, pendingMessage, reloads, intents, ops, lastSave, sideVars>>

\* loadOrGenerate after the chat response: the try block, or the throw on
\* a response that is not ok and the catch of an error that is no abort
InitResolved(i) ==
  /\ i \in invs /\ i.kind = "init" /\ i.stage = "chat" /\ ~i.aborted
  /\ chat[i.id].stage = "done"
  /\ LET data == chat[i.id] IN
     IF data.status # 200
     THEN /\ messages' = <<Entry("assistant", InitApology)>>
          /\ Finally(i)
          /\ settled' = Settle(i, "failed")
          /\ UNCHANGED visualization
     ELSE LET initialMessages ==
                <<Entry("assistant",
                        IF Truthy(data.reply) THEN data.reply ELSE InitDefaultReply)>>
          IN /\ visualization' = data.visualization
             /\ messages' = initialMessages
             /\ invs' = (invs \ {i}) \cup
                  {[i EXCEPT !.stage = "save", !.saveViz = data.visualization,
                             !.saveMsgs = initialMessages, !.outcome = "generated",
                             !.response = ResponseData(data)]}
             /\ UNCHANGED <<isLoading, abortControllerRef, settled>>
  /\ FetchSettled(i)
  /\ UNCHANGED <<storage, hasInitialized, pendingMessage, reloads, intents, ops, lastSave, sideVars>>

\* CanSend without the isLoading test
CanSendWhileLoading(userMessage) == Trim(userMessage) # <<>>

\* guard of sendMessageWithContent
CanSend(userMessage) == Trim(userMessage) # <<>> /\ ~isLoading

\* sendMessageWithContent up to the fetch
SendMessageWithContent(userMessage) ==
  /\ CanSend(userMessage)
  /\ Len(chat) < MaxReq
  /\ LET newMessages == Append(messages, Entry("user", userMessage))
         id == Len(chat) + 1
     IN /\ messages' = newMessages
        /\ isLoading' = TRUE
        /\ abortControllerRef' = id
        /\ chat' = Append(chat, NewRequest(FileId, userMessage, messages, visualization, <<>>))
        /\ invs' = invs \cup
             {[Activation(id, "turn", "chat") EXCEPT
                 !.newMessages = newMessages,
                 !.currentVisualization = visualization,
                 !.userMessage = userMessage]}
  /\ UNCHANGED <<storage, visualization, hasInitialized, reloads, settled, ops, lastSave, sideVars>>

\* sendMessage: the Send button or the Enter key
SendMessage(input) ==
  /\ hasInitialized
  /\ Trim(input) # <<>>
  /\ SendMessageWithContent(Trim(input))
  /\ intents' = intents + 1
  /\ UNCHANGED pendingMessage

\* what the pending-message effect does with the message it has sent
PendingMessageHandled == <<>>

\* useEffect on pendingMessage, isLoading, hasInitialized
PendingMessageEffect ==
  /\ pendingMessage # <<>> /\ ~isLoading /\ hasInitialized
  /\ SendMessageWithContent(pendingMessage)
  /\ pendingMessage' = PendingMessageHandled
  /\ UNCHANGED intents

\* SavedVisualization without the test of data.visualization
SavedVisualizationAsReturned(data, currentVisualization) == data.visualization

\* the markup a turn passes to saveState
SavedVisualization(data, currentVisualization) ==
  IF Truthy(data.visualization) THEN data.visualization ELSE currentVisualization

\* sendMessageWithContent after the chat response
TurnResolved(i) ==
  /\ i \in invs /\ i.kind = "turn" /\ i.stage = "chat" /\ ~i.aborted
  /\ chat[i.id].stage = "done"
  /\ LET data == chat[i.id] IN
     IF data.status # 200
     THEN /\ messages' = Append(messages, Entry("assistant", TurnApology))
          /\ Finally(i)
          /\ settled' = Settle(i, "failed")
          /\ UNCHANGED visualization
     ELSE LET updatedMessages ==
                Append(i.newMessages,
                       Entry("assistant",
                             IF Truthy(data.reply) THEN data.reply ELSE TurnDefaultReply))
          IN IF Truthy(data.visualization)
             THEN /\ visualization' = data.visualization
                  /\ invs' = (invs \ {i}) \cup
                       {[i EXCEPT !.stage = "save",
                                  !.saveViz = SavedVisualization(data, i.currentVisualization),
                                  !.saveMsgs = updatedMessages, !.outcome = "update",
                                  !.response = ResponseData(data)]}
                  /\ UNCHANGED <<messages, isLoading, abortControllerRef, settled>>
             ELSE /\ invs' = (invs \ {i}) \cup
                       {[i EXCEPT !.stage = "save",
                                  !.saveViz = SavedVisualization(data, i.currentVisualization),
                                  !.saveMsgs = updatedMessages, !.outcome = "answer",
                                  !.response = ResponseData(data)]}
                  /\ UNCHANGED <<visualization, messages, isLoading,
                                 abortControllerRef, settled>>
  /\ FetchSettled(i)
  /\ UNCHANGED <<storage, hasInitialized, pendingMessage, reloads, intents, ops, lastSave, sideVars>>

\* saveState (state route, POST: updateFileState) and what follows it:
\* setMessages(updatedMessages) in a turn, then the finally block
StateSaved(i) ==
  /\ i \in invs /\ i.stage = "save"
  /\ storage' = UpdateFileState(storage, FileId, i.saveViz, i.saveMsgs)
  /\ messages' = IF i.kind = "turn" THEN i.saveMsgs ELSE messages
  /\ Finally(i)
  /\ settled' = Settle(i, i.outcome)
  /\ UNCHANGED <<chat, visualization, hasInitialized, pendingMessage, reloads,
                 intents, ops, lastSave, sideVars>>

\* AbortHandled with the catch block of loadOrGenerate in the place of the
\* one of sendMessageWithContent: the notice replaces the transcript
AbortHandledReplacing(i) ==
  /\ i \in invs /\ i.stage = "chat" /\ i.aborted
  /\ messages' = <<Entry("assistant",
                         IF i.kind = "init" THEN InitCancelNotice ELSE TurnCancelNotice)>>
  /\ Finally(i)
  /\ settled' = Settle(i, "cancelled")
  /\ FetchSettled(i)
  /\ UNCHANGED <<storage, visualization, hasInitialized, pendingMessage,
                 reloads, intents, ops, lastSave, sideVars>>

\* the catch blocks on an AbortError, then the finally block
AbortHandled(i) ==
  /\ i \in invs /\ i.stage = "chat" /\ i.aborted
  /\ messages' = IF i.kind = "init"
                 THEN <<Entry("assistant", InitCancelNotice)>>
                 ELSE Append(messages, Entry("assistant", TurnCancelNotice))
  /\ Finally(i)
  /\ settled' = Settle(i, "cancelled")
  /\ FetchSettled(i)
  /\ UNCHANGED <<storage, visualization, hasInitialized, pendingMessage,
                 reloads, intents, ops, lastSave, sideVars>>

\* cancelRequest, from the ESC key or the Cancel button (shown while loading)
CancelRequest ==
  /\ isLoading
  /\ abortControllerRef # 0
  /\ abortControllerRef' = 0
  /\ invs' = {IF i.id = abortControllerRef /\ i.stage = "chat"
              THEN [i EXCEPT !.aborted = TRUE] ELSE i : i \in invs}
  /\ chat' = [r \in 1..Len(chat) |->
                IF r = abortControllerRef /\ (\E i \in invs : i.id = r /\ i.stage = "chat")
                THEN [chat[r] EXCEPT !.stage = "aborted"] ELSE chat[r]]
  /\ UNCHANGED <<storage, visualization, messages, isLoading, hasInitialized,
                 pendingMessage, reloads, intents, settled, ops, lastSave, sideVars>>

\* FetchRejected with the request sent again by the same activation
FetchRejectedRetried(r) ==
  /\ r \in 1..Len(chat)
  /\ chat[r].stage = "received"
  /\ Len(chat) <= MaxReq
  /\ chat' = Append([chat EXCEPT ![r] = Consumed], chat[r])
  /\ invs' = {IF i.id = r THEN [i EXCEPT !.id = Len(chat) + 1] ELSE i : i \in invs}
  /\ abortControllerRef' = IF abortControllerRef = r THEN Len(chat) + 1
                           ELSE abortControllerRef
  /\ UNCHANGED <<storage, visualization, messages, isLoading, hasInitialized,
                 pendingMessage, reloads, intents, settled, ops, lastSave, sideVars>>

\* the fetch of the chat route rejects: the request never reaches the route
FetchRejected(r) ==
  /\ r \in 1..Len(chat)
  /\ chat[r].stage = "received"
  /\ chat' = [chat EXCEPT ![r] = Respond(chat[r], 0)]
  /\ UNCHANGED <<storage, clientVars, ops, lastSave, sideVars>>

\* uploadAdditionalFiles: the files route adds the source file, the view
\* queues the auto-update message
UploadAdditionalFiles(name) ==
  /\ hasInitialized
  /\ Len(storage[FileId].sourceFiles) < 1 + MaxSources
  /\ storage' = AddSourceFile(storage, FileId, <<"src-new">>, name)
  /\ pendingMessage' = IF Truthy(visualization)
                       THEN NewDataMessage(name)
                       ELSE CreateWithFilesMessage(name)
  /\ intents' = intents + 1
  /\ UNCHANGED <<chat, visualization, messages, isLoading, abortControllerRef,
                 hasInitialized, invs, reloads, settled, ops, lastSave, sideVars>>

\* the page is loaded again: the components are constructed anew and the
\* requests of the old page are dropped
Reload ==
  /\ hasInitialized
  /\ reloads < MaxReloads
  /\ reloads' = reloads + 1
  /\ visualization' = <<>>
  /\ messages' = <<>>
  /\ isLoading' = FALSE
  /\ abortControllerRef' = 0
  /\ hasInitialized' = FALSE
  /\ pendingMessage' = <<>>
  /\ invs' = {}
  /\ chat' = [r \in 1..Len(chat) |-> Consumed]
  /\ UNCHANGED <<storage, intents, settled, ops, lastSave, sideVars>>

\* the markup of a visualization as an element tree
Document(tables, items) == [tables |-> tables, items |-> items]

\* no /api/export-csv request under way
IdleRequest ==
  [action |-> "none", html |-> Document(<<>>, <<>>), tableId |-> "",
   tableName |-> "", stage |-> "idle", calls |-> 0, status |-> 0,
   tables |-> <<>>, isArray |-> TRUE, csvData |-> <<>>]

\* VisualizationViewer before a visualization is rendered: its props and
\* state, its request, and what it has shown, alerted and downloaded
InitViewer ==
  [html |-> Document(<<>>, <<>>), rendered |-> FALSE, changed |-> FALSE,
   isExporting |-> FALSE, showCsvModal |-> FALSE, isLoadingTables |-> FALSE,
   availableTables |-> <<>>, isArray |-> TRUE, crashed |-> FALSE,
   alert |-> "", req |-> IdleRequest, identified |-> <<>>,
   selected |-> [direct |-> FALSE, html |-> Document(<<>>, <<>>)],
   exported |-> IdleRequest,
   download |-> <<>>, downloaded |-> FALSE]

Sessions == {"s1", "s2"}

\* the k-th pair a session saves: a markup and the transcript that goes
\* with it
SavePair(s, k) ==
  [session |-> s, k |-> k,
   visualization |-> <<"<div>", s, k, "</div>">>,
   chatHistory |-> <<Entry("assistant", <<"reply", s, k>>)>>]

Init ==
  /\ storage = InitStorage
  /\ chat = <<>>
  /\ visualization = <<>>
  /\ messages = <<>>
  /\ isLoading = FALSE
  /\ abortControllerRef = 0
  /\ hasInitialized = FALSE
  /\ pendingMessage = <<>>
  /\ invs = {}
  /\ reloads = 0
  /\ intents = 0
  /\ settled = [n |-> 0, kind |-> "none",
                of |-> [id |-> 0, kind |-> "", stage |-> "", aborted |-> FALSE,
                        newMessages |-> <<>>, currentVisualization |-> <<>>,
                        saveViz |-> <<>>, saveMsgs |-> <<>>, outcome |-> "",
                        userMessage |-> <<>>, response |-> NoResponse,
                        preStored |-> <<>>, preShown |-> <<>>, preMessages |-> <<>>]]
  /\ ops = {}
  /\ lastSave = [n |-> 0, overlapped |-> FALSE, pair |-> SavePair("", 0)]
  /\ upload = <<>>
  /\ created = [id \in DOMAIN InitStorage |-> InitStorage[id].fileType]
  /\ viewer = InitViewer

Next ==
  \/ LoadOrGenerate
  \/ \E i \in invs : StateLoaded(i)
  \/ \E i \in invs : InitResolved(i)
  \/ \E m \in UserMessages : SendMessage(m)
  \/ PendingMessageEffect
  \/ \E i \in invs : TurnResolved(i)
  \/ \E i \in invs : StateSaved(i)
  \/ \E i \in invs : AbortHandled(i)
  \/ CancelRequest
  \/ \E n \in UploadNames : UploadAdditionalFiles(n)
  \/ Reload
  \/ \E r \in 1..Len(chat) : FetchRejected(r)
  \/ \E r \in 1..Len(chat) : ChatStart(r)
  \/ \E r \in 1..Len(chat) : ChatLoad(r)
  \/ \E r \in 1..Len(chat), t \in ModelTexts : ModelRespond(r, t)
  \/ \E r \in 1..Len(chat) : ModelFail(r)

Spec == Init /\ [][Next]_vars

\* ------------------------------------------- the chat route on its own
\* POST: the body of a request, as any client may send it
ChatReceive(req) ==
  /\ chat = <<>>
  /\ chat' = <<req>>
  /\ UNCHANGED <<storage, clientVars, ops, lastSave, sideVars>>

Vocabulary == {"Make", "ALL", "the", "data", "Reload"}

WordSeqs(n) == UNION {[1..k -> Vocabulary] : k \in 0..n}

Histories == { <<>>, <<Entry("user", <<"hi">>), Entry("assistant", <<"hello">>)>> }

Markups == { <<>>, Null, <<"<div>0</div>">> }

AnyRequests ==
  { NewRequest(f, m, h, v, a) :
      f \in {"", "d1", "d2", "ghost"}, m \in WordSeqs(MaxWords), h \in Histories,
      v \in Markups, a \in {<<>>, <<"ghost", "d2">>} }

NextChat ==
  \/ chat = <<>> /\ \E req \in AnyRequests : ChatReceive(req)
  \/ \E r \in 1..Len(chat) : ChatStart(r)
  \/ \E r \in 1..Len(chat) : ChatLoad(r)
  \/ \E r \in 1..Len(chat), t \in ModelTexts : ModelRespond(r, t)
  \/ \E r \in 1..Len(chat) : ModelFail(r)

SpecChat == Init /\ [][NextChat]_vars

\* --------------------------------- response parsing over all short texts
Alphabet == {"a", NL, MARKER, FENCE, TAG}

Texts(n) == UNION {[1..k -> Alphabet] : k \in 0..n}

ParseRequests ==
  { NewRequest("d1", <<"Make">>, h, v, <<>>) :
      h \in Histories \ {<<>>}, v \in {<<>>, <<"<div>0</div>">>} }

NextParse ==
  \/ chat = <<>> /\ \E req \in ParseRequests : ChatReceive(req)
  \/ \E r \in 1..Len(chat) : ChatStart(r)
  \/ \E r \in 1..Len(chat) : ChatLoad(r)
  \/ \E r \in 1..Len(chat) :
       chat[r].stage = "calling" /\ \E t \in Texts(MaxTextLen) : ModelRespond(r, t)

SpecParse == Init /\ [][NextParse]_vars

\* ------------------------------------- state saves of several sessions
\* updateFileState up to the await of saveStorage: getStorage and the
\* changes to the object it returned
UpdateFileStateRead(s, k) ==
  /\ lastSave.n + Cardinality(ops) < 2 * MaxSaves
  /\ \A o \in ops : o.pair.session # s
  /\ HasFile(storage, FileId)
  /\ ops' = ops \cup
       {[pair |-> SavePair(s, k), readAt |-> lastSave.n,
         data |-> UpdateFileState(storage, FileId, SavePair(s, k).visualization,
                                  SavePair(s, k).chatHistory)]}
  /\ UNCHANGED <<storage, chat, clientVars, lastSave, sideVars>>

\* saveStorage: the file is written with the object of this operation
UpdateFileStateWrite(o) ==
  /\ o \in ops
  /\ storage' = o.data
  /\ ops' = ops \ {o}
  /\ lastSave' = [n |-> lastSave.n + 1, overlapped |-> lastSave.n > o.readAt,
                  pair |-> o.pair]
  /\ UNCHANGED <<chat, clientVars, sideVars>>

NextStore ==
  \/ \E s \in Sessions, k \in 1..MaxSaves : UpdateFileStateRead(s, k)
  \/ \E o \in ops : UpdateFileStateWrite(o)

SpecStore == Init /\ [][NextStore]_vars

\* ---------------------------------------------- classification of uploads
\* The text of a classification response is a sequence of tokens: the
\* braces, a member of an object literal written key:value, and prose.
LBRACE == "{"
RBRACE == "}"
PROSE == "prose"
Undefined == "<undefined>"

FileTypes == {"schedule", "invoice", "healthcare", "unknown"}

\* the members the parser looks at
Members ==
  [t \in {"fileType:invoice", "fileType:receipt", "fileType:",
          "extractedText:summary", "structured:payload"} |->
     CASE t = "fileType:invoice" -> [key |-> "fileType", value |-> "invoice"]
       [] t = "fileType:receipt" -> [key |-> "fileType", value |-> "receipt"]
       [] t = "fileType:" -> [key |-> "fileType", value |-> ""]
       [] t = "extractedText:summary" -> [key |-> "extractedText", value |-> "summary"]
       [] OTHER -> [key |-> "structured", value |-> "payload"]]

\* content.text.match of the object regex: from the first opening brace to
\* the last closing brace after it (greedy), <<>> = no match
JsonMatch(text) ==
  LET opens == {k \in 1..Len(text) : text[k] = LBRACE}
      first == CHOOSE k \in opens : \A j \in opens : k <= j
      closes == {k \in 1..Len(text) : text[k] = RBRACE /\ k > first}
      last == CHOOSE k \in closes : \A j \in closes : k >= j
  IN IF opens = {} THEN <<>>
     ELSE IF closes = {} THEN <<>>
     ELSE SubSeq(text, first, last)

\* JSON.parse accepts the matched text: members only between the braces
JsonParses(m) ==
  /\ Len(m) >= 2
  /\ \A k \in 2..(Len(m) - 1) : m[k] \in DOMAIN Members

\* parsed[key]: the last member with that key, or undefined
Property(m, key) ==
  LET at == {k \in 2..(Len(m) - 1) : Members[m[k]].key = key}
      last == CHOOSE k \in at : \A j \in at : k >= j
  IN IF at = {} THEN Undefined ELSE Members[m[last]].value

\* a || b for a string or undefined
OrElse(a, b) == IF a = Undefined \/ a = "" THEN b ELSE a

TextBlock(text) == [type |-> "text", text |-> text]
ToolUseBlock == [type |-> "tool_use", text |-> <<>>]

ExtractionResult(text, fileType, structured) ==
  [text |-> text, fileType |-> fileType, structured |-> structured]

\* ParseExtractionResponse with the raw text dropped where parsing fails
ParseExtractionResponseNoRaw(content) ==
  IF content.type # "text"
  THEN ExtractionResult(<<>>, "unknown", Undefined)
  ELSE LET jsonMatch == JsonMatch(content.text) IN
       IF jsonMatch # <<>> /\ JsonParses(jsonMatch)
       THEN ExtractionResult(
              IF OrElse(Property(jsonMatch, "extractedText"), "") = ""
              THEN content.text
              ELSE <<Property(jsonMatch, "extractedText")>>,
              OrElse(Property(jsonMatch, "fileType"), "unknown"),
              Property(jsonMatch, "structured"))
       ELSE ExtractionResult(<<>>, "unknown", Undefined)

\* parseExtractionResponse on response.content[0]
ParseExtractionResponse(content) ==
  IF content.type # "text"
  THEN ExtractionResult(<<>>, "unknown", Undefined)
  ELSE LET jsonMatch == JsonMatch(content.text) IN
       IF jsonMatch # <<>> /\ JsonParses(jsonMatch)
       THEN ExtractionResult(
              IF OrElse(Property(jsonMatch, "extractedText"), "") = ""
              THEN content.text
              ELSE <<Property(jsonMatch, "extractedText")>>,
              OrElse(Property(jsonMatch, "fileType"), "unknown"),
              Property(jsonMatch, "structured"))
       ELSE ExtractionResult(content.text, "unknown", Undefined)

\* ------------------------------------------------- the files route, POST
\* generateId: an id no other document has
NewId(u) == CASE u = 1 -> "n1" [] u = 2 -> "n2" [] u = 3 -> "n3" [] OTHER -> "n4"

Numeral(i) == CASE i = 1 -> "1" [] i = 2 -> "2" [] OTHER -> "3"

\* combinedText: the one text, or every text under a header with its
\* position and name
RECURSIVE CombinedFrom(_, _, _)
CombinedFrom(extractions, names, i) ==
  IF i > Len(extractions) THEN <<>>
  ELSE (IF i > 1 THEN <<NL, NL>> ELSE <<>>)
       \o <<"=== File", Numeral(i), names[i], "===", NL>> \o extractions[i].text
       \o CombinedFrom(extractions, names, i + 1)

CombinedText(extractions, names) ==
  IF Len(names) > 1 THEN CombinedFrom(extractions, names, 1)
  ELSE extractions[1].text

\* mainFileType: the one category of the files, or unknown if they differ
MainFileType(extractions) ==
  LET fileTypes == {extractions[i].fileType : i \in 1..Len(extractions)} IN
  IF Cardinality(fileTypes) = 1 THEN CHOOSE t \in fileTypes : TRUE ELSE "unknown"

\* finalDisplayName without a displayName field in the form
StripExtension(name) ==
  CASE name = "a.pdf" -> "a" [] name = "b.csv" -> "b" [] OTHER -> name

FinalDisplayName(names) ==
  IF Len(names) = 1 THEN StripExtension(names[1]) ELSE "2 files"

\* importedFile of the POST handler
ImportedFile(extractions, names) ==
  Doc(FinalDisplayName(names), MainFileType(extractions),
      CombinedText(extractions, names),
      [i \in 1..Len(names) |-> SourceFile(names[i], extractions[i].text)])

UploadForms == { <<>>, <<"a.pdf">>, <<"a.pdf", "b.csv">> }

\* what the model answers to a classification call
ClassificationBlocks ==
  { ToolUseBlock,
    TextBlock(<<PROSE>>),
    TextBlock(<<LBRACE, "fileType:invoice", "extractedText:summary", RBRACE>>),
    TextBlock(<<PROSE, LBRACE, "fileType:receipt", "structured:payload", RBRACE>>),
    TextBlock(<<LBRACE, "fileType:invoice", PROSE, RBRACE>>) }

\* room for one more store operation, the saves of the uploads under way
\* counted in
CanOperate ==
  /\ lastSave.n + Cardinality(ops)
       + Cardinality({u \in 1..Len(upload) : upload[u].stage = "extracting"}) < MaxOps
  /\ Cardinality(ops) < 2

\* POST up to the first extraction: the form is read
FilesReceive(names) ==
  /\ Len(upload) < MaxUploads
  /\ CanOperate
  /\ upload' = Append(upload,
       [names |-> names, extractions |-> <<>>, contents |-> <<>>,
        stage |-> IF names = <<>> THEN "done" ELSE "extracting",
        status |-> IF names = <<>> THEN 400 ELSE 0, threw |-> FALSE])
  /\ UNCHANGED <<storage, chat, clientVars, ops, lastSave, created, viewer>>

\* extractDocument of the next file: the model call resolves
Extract(u, content) ==
  /\ u \in 1..Len(upload)
  /\ upload[u].stage = "extracting"
  /\ Len(upload[u].extractions) < Len(upload[u].names)
  /\ upload' = [upload EXCEPT
       ![u].extractions = Append(@, ParseExtractionResponse(content)),
       ![u].contents = Append(@, content)]
  /\ UNCHANGED <<storage, chat, clientVars, ops, lastSave, created, viewer>>

\* extractDocument of the next file: the model call rejects, the catch of
\* the handler answers 500
ExtractThrows(u) ==
  /\ u \in 1..Len(upload)
  /\ upload[u].stage = "extracting"
  /\ Len(upload[u].extractions) < Len(upload[u].names)
  /\ upload' = [upload EXCEPT ![u].stage = "done", ![u].status = 500,
                              ![u].threw = TRUE]
  /\ UNCHANGED <<storage, chat, clientVars, ops, lastSave, created, viewer>>

\* a store operation from getStorage to the start of saveStorage
StoreOp(kind, data, u) == [kind |-> kind, data |-> data, upload |-> u]

\* POST: getStorage, storage.files.unshift(importedFile)
FilesSave(u) ==
  /\ u \in 1..Len(upload)
  /\ upload[u].stage = "extracting"
  /\ Len(upload[u].extractions) = Len(upload[u].names)
  /\ LET file == ImportedFile(upload[u].extractions, upload[u].names) IN
     /\ ops' = ops \cup {StoreOp("create", (NewId(u) :> file) @@ storage, u)}
     /\ created' = (NewId(u) :> file.fileType) @@ created
  /\ upload' = [upload EXCEPT ![u].stage = "saving"]
  /\ UNCHANGED <<storage, chat, clientVars, lastSave, viewer>>

\* ------------------------------------------ the store under all its writers
\* UpdateFileName with the category set again from the new name
UpdateFileNameRetyped(st, id, displayName) ==
  IF HasFile(st, id)
  THEN [st EXCEPT ![id].displayName = displayName, ![id].fileType = "unknown"]
  ELSE st

\* updateFileName on the storage object it read
UpdateFileName(st, id, displayName) ==
  IF HasFile(st, id)
  THEN [st EXCEPT ![id].displayName = displayName]
  ELSE st

\* removeSourceFile on the storage object it read, k = the index found
RemoveSourceFile(st, id, k) ==
  IF HasFile(st, id) /\ k \in 1..Len(st[id].sourceFiles)
  THEN [st EXCEPT ![id].sourceFiles =
          SubSeq(@, 1, k - 1) \o SubSeq(@, k + 1, Len(@))]
  ELSE st

\* deleteFile on the storage object it read
DeleteFile(st, id) == [i \in DOMAIN st \ {id} |-> st[i]]


\* files route, PATCH: updateFileName up to saveStorage
UpdateFileNameRead(id, displayName) ==
  /\ CanOperate
  /\ HasFile(storage, id)
  /\ ops' = ops \cup {StoreOp("rename", UpdateFileName(storage, id, displayName), 0)}
  /\ UNCHANGED <<storage, chat, clientVars, lastSave, sideVars>>

\* files route, POST with documentId: addSourceFile up to saveStorage
AddSourceFileRead(id, name) ==
  /\ CanOperate
  /\ HasFile(storage, id)
  /\ Len(storage[id].sourceFiles) < 1 + MaxSources
  /\ ops' = ops \cup {StoreOp("add", AddSourceFile(storage, id, <<"src-new">>, name), 0)}
  /\ UNCHANGED <<storage, chat, clientVars, lastSave, sideVars>>

\* files route, DELETE with sourceFileId: removeSourceFile up to saveStorage
RemoveSourceFileRead(id, k) ==
  /\ CanOperate
  /\ HasFile(storage, id)
  /\ k \in 1..Len(storage[id].sourceFiles)
  /\ ops' = ops \cup {StoreOp("remove", RemoveSourceFile(storage, id, k), 0)}
  /\ UNCHANGED <<storage, chat, clientVars, lastSave, sideVars>>

\* files route, DELETE: deleteFile up to saveStorage
DeleteFileRead(id) ==
  /\ CanOperate
  /\ HasFile(storage, id)
  /\ ops' = ops \cup {StoreOp("delete", DeleteFile(storage, id), 0)}
  /\ UNCHANGED <<storage, chat, clientVars, lastSave, sideVars>>

\* state route, POST (the save of a chat turn): updateFileState up to
\* saveStorage
StateSaveRead(id, s) ==
  /\ CanOperate
  /\ HasFile(storage, id)
  /\ ops' = ops \cup
       {StoreOp("state", UpdateFileState(storage, id, SavePair(s, 1).visualization,
                                         SavePair(s, 1).chatHistory), 0)}
  /\ UNCHANGED <<storage, chat, clientVars, lastSave, sideVars>>

\* saveStorage: the file is written with the object of the operation; the
\* POST of a new document answers
SaveStorage(o) ==
  /\ o \in ops
  /\ storage' = o.data
  /\ ops' = ops \ {o}
  /\ lastSave' = [lastSave EXCEPT !.n = lastSave.n + 1]
  /\ upload' = IF o.upload = 0 THEN upload
               ELSE [upload EXCEPT ![o.upload].stage = "done",
                                   ![o.upload].status = 200]
  /\ UNCHANGED <<chat, clientVars, created, viewer>>

NextFiles ==
  \/ \E names \in UploadForms : FilesReceive(names)
  \/ \E u \in 1..Len(upload), c \in ClassificationBlocks : Extract(u, c)
  \/ \E u \in 1..Len(upload) : ExtractThrows(u)
  \/ \E u \in 1..Len(upload) : FilesSave(u)
  \/ UpdateFileNameRead(FileId, "Renamed")
  \/ AddSourceFileRead(FileId, "b.csv")
  \/ \E k \in 1..(1 + MaxSources) : RemoveSourceFileRead(FileId, k)
  \/ \E id \in {"d1", "n1"} : DeleteFileRead(id)
  \/ StateSaveRead(FileId, "s1")
  \/ \E o \in ops : SaveStorage(o)

SpecFiles == Init /\ [][NextFiles]_vars

\* ------------------------------- classification over all short responses
ClassificationTexts(n) ==
  UNION {[1..k -> {LBRACE, RBRACE, PROSE} \cup DOMAIN Members] : k \in 0..n}

NextExtract ==
  \/ upload = <<>> /\ FilesReceive(<<"a.pdf">>)
  \/ \E u \in 1..Len(upload) :
       /\ upload[u].stage = "extracting"
       /\ Len(upload[u].extractions) < Len(upload[u].names)
       /\ \E t \in ClassificationTexts(MaxJsonLen) : Extract(u, TextBlock(t))
  \/ \E u \in 1..Len(upload) : Extract(u, ToolUseBlock)
  \/ \E u \in 1..Len(upload) : ExtractThrows(u)
  \/ \E u \in 1..Len(upload) : FilesSave(u)
  \/ \E o \in ops : SaveStorage(o)

SpecExtract == Init /\ [][NextExtract]_vars

\* ------------------------------------------- structural table extraction
\* The markup given to the export route is taken as the document JSDOM
\* builds from it: its table elements (rows of cells) and its elements of
\* class item (sub-elements by class, and the special-order class).  The
\* text of a cell is a sequence of tokens: COMMA, QUOTE, NL, SP, a money
\* amount with a thousands separator, or a run of other characters.
COMMA == ","
QUOTE == "\""
MONEY == "1,234.56"
DOLLARMONEY == "$1,234.56"
CLEANMONEY == "$1234.56"

Item(fields, special) == [fields |-> fields, special |-> special]

\* text.includes(',')
IncludesComma(text) ==
  \E k \in 1..Len(text) : text[k] \in {COMMA, MONEY, DOLLARMONEY}

\* text.includes('"')
IncludesQuote(text) == \E k \in 1..Len(text) : text[k] = QUOTE

\* text.replace of an amount, first match only; withoutSign = the dollar
\* sign of the pattern is optional
CleanMoney(text, withoutSign) ==
  LET hit(t) == t = DOLLARMONEY \/ (withoutSign /\ t = MONEY)
      at == {k \in 1..Len(text) : hit(text[k])}
      first == CHOOSE k \in at : \A j \in at : k <= j
  IN IF at = {} THEN text ELSE [text EXCEPT ![first] = CLEANMONEY]

\* text.replace(/"/g, '""')
RECURSIVE DoubleQuotes(_)
DoubleQuotes(text) ==
  IF text = <<>> THEN <<>>
  ELSE (IF Head(text) = QUOTE THEN <<QUOTE, QUOTE>> ELSE <<Head(text)>>)
       \o DoubleQuotes(Tail(text))

\* the text is wrapped in quotes when it includes a comma or a quote
QuoteField(text) ==
  IF IncludesComma(text) \/ IncludesQuote(text)
  THEN <<QUOTE>> \o DoubleQuotes(text) \o <<QUOTE>>
  ELSE text

\* a cell of a table row
TableCell(textContent) == QuoteField(CleanMoney(Trim(textContent), TRUE))

\* a cell of an item row: the amount needs its dollar sign
ItemCell(textContent) == QuoteField(CleanMoney(Trim(textContent), FALSE))

\* r.join(sep) for sequences of texts
RECURSIVE Join(_, _)
Join(texts, sep) ==
  IF texts = <<>> THEN <<>>
  ELSE IF Len(texts) = 1 THEN texts[1]
  ELSE texts[1] \o <<sep>> \o Join(Tail(texts), sep)

\* rows.map(r => r.join(',')).join('\n')
CsvData(rows) == Join([r \in 1..Len(rows) |-> Join(rows[r], COMMA)], NL)

\* the rows of one table: every tr with at least one cell
RECURSIVE TableRows(_)
TableRows(trs) ==
  IF trs = <<>> THEN <<>>
  ELSE (IF Len(Head(trs)) > 0
        THEN << [c \in 1..Len(Head(trs)) |-> TableCell(Head(trs)[c])] >>
        ELSE <<>>)
       \o TableRows(Tail(trs))

Candidate(id, name, csvData) == [id |-> id, name |-> name, csvData |-> csvData]

TableId(idx) == CASE idx = 1 -> "table_1" [] idx = 2 -> "table_2" [] OTHER -> "table_3"
TableName(idx) == CASE idx = 1 -> "Table 1" [] idx = 2 -> "Table 2" [] OTHER -> "Table 3"

\* htmlTables.forEach: a table with more than one row is pushed
RECURSIVE HtmlTables(_, _)
HtmlTables(tables, idx) ==
  IF idx > Len(tables) THEN <<>>
  ELSE (IF Len(TableRows(tables[idx])) > 1
        THEN <<Candidate(TableId(idx), TableName(idx), CsvData(TableRows(tables[idx])))>>
        ELSE <<>>)
       \o HtmlTables(tables, idx + 1)

\* the classes looked for inside an element of class item, in the order
\* of the source
selectors ==
  <<"item-name", "item-code", "quantity", "category", "original-price",
    "discount", "final-price">>

\* a mutation of FoundSelectors: the classes in the order in which the
\* items first carry them
FoundSelectorsByItem(items) ==
  LET firstAt(sel) ==
        CHOOSE i \in 1..Len(items) :
          /\ sel \in DOMAIN items[i].fields
          /\ \A j \in 1..(i - 1) : sel \notin DOMAIN items[j].fields
      used == {k \in 1..Len(selectors) :
                 \E i \in 1..Len(items) : selectors[k] \in DOMAIN items[i].fields}
      before(a, b) ==
        \/ firstAt(selectors[a]) < firstAt(selectors[b])
        \/ (firstAt(selectors[a]) = firstAt(selectors[b]) /\ a < b)
      rank(k) == Cardinality({j \in used : before(j, k)}) + 1
      found == [n \in 1..Cardinality(used) |->
                  selectors[CHOOSE k \in used : rank(k) = n]]
  IN IF \E i \in 1..Len(items) : items[i].special
     THEN Append(found, "special-order") ELSE found

\* selectors.forEach ... foundSelectors.push(sel), then special-order
FoundSelectors(items) ==
  LET used(sel) == \E i \in 1..Len(items) : sel \in DOMAIN items[i].fields
      found == SelectSeq(selectors, used)
  IN IF \E i \in 1..Len(items) : items[i].special
     THEN Append(found, "special-order") ELSE found

\* sel.split('-').map(capitalise).join(' '), and 'Special Order'
HeaderCell(sel) ==
  CASE sel = "item-name" -> "Item Name"
    [] sel = "item-code" -> "Item Code"
    [] sel = "quantity" -> "Quantity"
    [] sel = "category" -> "Category"
    [] sel = "original-price" -> "Original Price"
    [] sel = "discount" -> "Discount"
    [] sel = "final-price" -> "Final Price"
    [] OTHER -> "Special Order"

\* the cells of one item under the found selectors
RowCells(item, found) ==
  [k \in 1..Len(found) |->
     IF found[k] = "special-order"
     THEN (IF item.special THEN <<"Yes">> ELSE <<>>)
     ELSE IF found[k] \in DOMAIN item.fields
          THEN ItemCell(item.fields[found[k]])
          ELSE <<>>]

\* the items pass: one candidate when there are items and at least two
\* header cells
LineItems(items) ==
  LET found == FoundSelectors(items)
      headerCells == [k \in 1..Len(found) |-> <<HeaderCell(found[k])>>]
      rows == <<headerCells>> \o [i \in 1..Len(items) |-> RowCells(items[i], found)]
  IN IF Len(items) > 0 /\ Len(found) >= 2
     THEN <<Candidate("line_items", "Line Items", CsvData(rows))>>
     ELSE <<>>

\* a mutation of TryDirectExtraction: the structural pass finds nothing
TryDirectExtractionNothing(html) == <<>>

\* tryDirectExtraction: the candidates of both passes; the empty sequence
\* stands for the null result the source returns when there are none
TryDirectExtraction(html) == HtmlTables(html.tables, 1) \o LineItems(html.items)

\* csvData.split('\n').length - 1
RowCount(csvData) == Cardinality({k \in 1..Len(csvData) : csvData[k] = NL})

\* a mutation of DirectTable: the delimited text is left out
DirectTableWithoutText(t) ==
  [id |-> t.id, name |-> t.name, rowCount |-> RowCount(t.csvData),
   csvData |-> <<>>, directExtraction |-> TRUE]

\* the candidate as identify answers it, its delimited text included
DirectTable(t) ==
  [id |-> t.id, name |-> t.name, rowCount |-> RowCount(t.csvData),
   csvData |-> t.csvData, directExtraction |-> TRUE]

\* directResult.tables.find(t => t.id === tableId || t.name === tableName)
FindTable(tables, tableId, tableName) ==
  LET hits == {k \in 1..Len(tables) :
                 tables[k].id = tableId \/ tables[k].name = tableName}
  IN IF hits = {} THEN Null
     ELSE tables[CHOOSE k \in hits : \A j \in hits : k <= j].csvData


\* ------------------------------------------------- the export-csv route
JSONTAG == "json"
CSVTAG == "csv"
LBRACKET == "["
RBRACKET == "]"
OBJECT == "{\"error\":\"none\"}"

\* the candidates a model response may list
ModelTables ==
  [t \in {"costs", "visits"} |->
     [id |-> t, name |-> t, rowCount |-> IF t = "costs" THEN 3 ELSE 5,
      csvData |-> <<>>, directExtraction |-> FALSE]]

\* replace of an opening fence with a language tag, at the start
StripTaggedFence(s, tag) ==
  IF Len(s) >= 2 /\ s[1] = FENCE /\ s[2] = tag
  THEN IF Len(s) >= 3 /\ s[3] = NL
       THEN SubSeq(s, 4, Len(s))
       ELSE SubSeq(s, 3, Len(s))
  ELSE s

\* jsonStr.match of the bracket pattern: from the first opening bracket to
\* the last closing bracket after it, else the text without its fences
JsonStr(text) ==
  LET opens == {k \in 1..Len(text) : text[k] = LBRACKET}
      first == CHOOSE k \in opens : \A j \in opens : k <= j
      closes == {k \in 1..Len(text) : text[k] = RBRACKET /\ k > first}
      last == CHOOSE k \in closes : \A j \in closes : j <= k
  IN IF opens # {} /\ closes # {}
     THEN SubSeq(text, first, last)
     ELSE StripClosingFence(StripTaggedFence(Trim(text), JSONTAG))

\* JSON.parse of the text: an array of candidates, another value, or a
\* syntax error
JsonParse(jsonStr) ==
  LET t == Trim(jsonStr)
      inner == SubSeq(t, 2, Len(t) - 1)
  IN IF /\ Len(t) >= 2 /\ t[1] = LBRACKET /\ t[Len(t)] = RBRACKET
        /\ \A k \in 1..Len(inner) : inner[k] \in DOMAIN ModelTables
     THEN [ok |-> TRUE, isArray |-> TRUE,
           tables |-> [k \in 1..Len(inner) |-> ModelTables[inner[k]]]]
     ELSE IF t = <<OBJECT>>
     THEN [ok |-> TRUE, isArray |-> FALSE, tables |-> <<>>]
     ELSE [ok |-> FALSE, isArray |-> TRUE, tables |-> <<>>]

\* the answer of identify to a text block of the model: parse errors
\* become an empty array
IdentifyParsed(text) ==
  LET parsed == JsonParse(JsonStr(text))
  IN IF parsed.ok THEN parsed ELSE [parsed EXCEPT !.tables = <<>>, !.isArray = TRUE]

\* the answer of extract to a text block of the model
ExtractCleaned(text) == StripClosingFence(StripTaggedFence(Trim(text), CSVTAG))

\* ------------------------------------------------ the table export flow
MaxRows == 2
MaxWidth == 2
MaxItems == 2
MaxIdentify == 2

PlainCell == <<"a">>

\* texts a cell may hold besides the plain one
CellTexts ==
  {<<"a", COMMA, "b">>, <<"a", QUOTE>>, <<"a", NL, "b">>, <<MONEY>>,
   <<DOLLARMONEY>>, <<SP, "a">>, <<>>}

\* a table of n data rows under a header of w cells
Grid(n, w) == [r \in 1..(n + 1) |-> [c \in 1..w |-> PlainCell]]

\* the tables drawn: every shape, with at most one cell that is not plain
Grids ==
  UNION {{Grid(n, w)} \cup
         {[Grid(n, w) EXCEPT ![r][c] = t] :
            r \in 1..(n + 1), c \in 1..w, t \in CellTexts} :
         n \in 0..MaxRows, w \in 1..MaxWidth}

ItemFields == {"quantity", "item-name", "final-price"}

\* the items drawn carry at least two of the sub-fields
ItemChoices ==
  {Item([f \in fs |-> PlainCell], sp) :
     fs \in {x \in SUBSET ItemFields : Cardinality(x) >= 2}, sp \in BOOLEAN}

ItemLists == UNION {[1..n -> ItemChoices] : n \in 1..MaxItems}

\* a visualization with tables and items together: the second table has
\* a header only
MixedHtml ==
  Document(<<Grid(1, 2), Grid(0, 1), Grid(MaxRows, 1)>>,
           <<Item([f \in {"item-name", "discount"} |->
                     IF f = "discount" THEN <<"-", DOLLARMONEY>> ELSE <<MONEY>>],
                  TRUE)>>)

ChartHtml == Document(<<>>, <<>>)

\* items with one sub-field, with and without the marker class
SparseItemHtmls ==
  {Document(<<>>, <<Item([f \in {"quantity"} |-> PlainCell], sp)>>) : sp \in BOOLEAN}

\* a table whose data row has fewer cells than its header
RaggedHtml == Document(<< <<<<PlainCell, PlainCell>>, <<PlainCell>>>> >>, <<>>)

Htmls ==
  {Document(<<g>>, <<>>) : g \in Grids}
  \cup {Document(<<>>, items) : items \in ItemLists}
  \cup SparseItemHtmls
  \cup {MixedHtml, ChartHtml, RaggedHtml}

\* what a later chat turn may change the markup to
ChangedHtmls == {Document(<<Grid(1, 1)>>, <<>>), ChartHtml}

\* answers of the model to the identify prompt
IdentifyBlocks ==
  {TextBlock(<<LBRACKET, "costs", "visits", RBRACKET>>),
   TextBlock(<<PROSE, LBRACKET, "visits", RBRACKET, PROSE>>),
   TextBlock(<<FENCE, JSONTAG, NL, LBRACKET, RBRACKET, NL, FENCE>>),
   TextBlock(<<PROSE>>),
   TextBlock(<<LBRACKET, PROSE, RBRACKET>>),
   TextBlock(<<FENCE, JSONTAG, NL, OBJECT, NL, FENCE>>),
   ToolUseBlock}

\* answers of the model to the extract prompt
ExtractBlocks ==
  {TextBlock(<<"h", NL, "v">>),
   TextBlock(<<FENCE, CSVTAG, NL, "h", NL, "v", NL, FENCE>>),
   TextBlock(<<PROSE>>),
   TextBlock(<<SP>>),
   ToolUseBlock}

\* the parent renders a visualization into the viewer
Render(h) ==
  /\ ~viewer.rendered
  /\ viewer' = [viewer EXCEPT !.html = h, !.rendered = TRUE]
  /\ UNCHANGED <<storage, chat, clientVars, ops, lastSave, upload, created>>

\* a chat turn replaces the markup while the viewer is mounted
MarkupChanged(h) ==
  /\ viewer.rendered /\ ~viewer.changed /\ ~viewer.crashed
  /\ h # viewer.html
  /\ viewer' = [viewer EXCEPT !.html = h, !.changed = TRUE]
  /\ UNCHANGED <<storage, chat, clientVars, ops, lastSave, upload, created>>

\* handleCsvClick up to the fetch
HandleCsvClick ==
  /\ ~viewer.isExporting /\ ~viewer.isLoadingTables /\ ~viewer.crashed
  /\ Len(viewer.identified) < MaxIdentify
  /\ IF ~viewer.rendered
     THEN viewer' = [viewer EXCEPT !.alert = "No visualization to export"]
     ELSE viewer' = [viewer EXCEPT
            !.isLoadingTables = TRUE, !.showCsvModal = TRUE,
            !.availableTables = <<>>, !.isArray = TRUE,
            !.req = [IdleRequest EXCEPT !.action = "identify",
                       !.html = viewer.html, !.stage = "received"]]
  /\ UNCHANGED <<storage, chat, clientVars, ops, lastSave, upload, created>>

\* a mutation of ExportIdentify: the model is asked without the
\* structural pass
ExportIdentifyFallback ==
  /\ viewer.req.stage = "received" /\ viewer.req.action = "identify"
  /\ viewer' = [viewer EXCEPT !.req.stage = "calling", !.req.calls = @ + 1]
  /\ UNCHANGED <<storage, chat, clientVars, ops, lastSave, upload, created>>

\* POST with action identify, up to its answer or its model call
ExportIdentify ==
  /\ viewer.req.stage = "received" /\ viewer.req.action = "identify"
  /\ LET direct == TryDirectExtraction(viewer.req.html) IN
     IF Len(direct) > 0
     THEN viewer' = [viewer EXCEPT
            !.req.stage = "responded", !.req.status = 200,
            !.req.tables = [k \in 1..Len(direct) |-> DirectTable(direct[k])]]
     ELSE viewer' = [viewer EXCEPT !.req.stage = "calling", !.req.calls = @ + 1]
  /\ UNCHANGED <<storage, chat, clientVars, ops, lastSave, upload, created>>

\* a mutation of ExportExtract: the model is asked without the structural
\* pass
ExportExtractFallback ==
  /\ viewer.req.stage = "received" /\ viewer.req.action = "extract"
  /\ viewer' = [viewer EXCEPT !.req.stage = "calling", !.req.calls = @ + 1]
  /\ UNCHANGED <<storage, chat, clientVars, ops, lastSave, upload, created>>

\* POST with action extract, up to its answer or its model call
ExportExtract ==
  /\ viewer.req.stage = "received" /\ viewer.req.action = "extract"
  /\ LET direct == TryDirectExtraction(viewer.req.html)
         table == FindTable(direct, viewer.req.tableId, viewer.req.tableName)
     IN IF viewer.req.tableId = "" /\ viewer.req.tableName = ""
        THEN viewer' = [viewer EXCEPT !.req.stage = "responded", !.req.status = 400]
        ELSE IF Len(direct) > 0 /\ table # Null
        THEN viewer' = [viewer EXCEPT
               !.req.stage = "responded", !.req.status = 200,
               !.req.csvData = table]
        ELSE viewer' = [viewer EXCEPT !.req.stage = "calling", !.req.calls = @ + 1]
  /\ UNCHANGED <<storage, chat, clientVars, ops, lastSave, upload, created>>

\* the model call of the route resolves with a content block
ExportModelResolves(block) ==
  /\ viewer.req.stage = "calling"
  /\ IF block.type # "text"
     THEN viewer' = [viewer EXCEPT !.req.stage = "responded", !.req.status = 500]
     ELSE IF viewer.req.action = "identify"
     THEN viewer' = [viewer EXCEPT
            !.req.stage = "responded", !.req.status = 200,
            !.req.tables = IdentifyParsed(block.text).tables,
            !.req.isArray = IdentifyParsed(block.text).isArray]
     ELSE viewer' = [viewer EXCEPT
            !.req.stage = "responded", !.req.status = 200,
            !.req.csvData = ExtractCleaned(block.text)]
  /\ UNCHANGED <<storage, chat, clientVars, ops, lastSave, upload, created>>

\* the model call rejects: the outer catch of the route answers 500
ExportModelRejects ==
  /\ viewer.req.stage = "calling"
  /\ viewer' = [viewer EXCEPT !.req.stage = "responded", !.req.status = 500]
  /\ UNCHANGED <<storage, chat, clientVars, ops, lastSave, upload, created>>

\* the fetch of the viewer rejects (no answer from the route)
ExportFetchRejected ==
  /\ viewer.req.stage = "received"
  /\ viewer' = [viewer EXCEPT !.req.stage = "rejected"]
  /\ UNCHANGED <<storage, chat, clientVars, ops, lastSave, upload, created>>

\* what handleCsvClick puts into availableTables
ShownTables(req) ==
  IF req.stage = "responded" /\ req.status = 200
  THEN [isArray |-> req.isArray, tables |-> req.tables]
  ELSE [isArray |-> TRUE, tables |-> <<>>]

\* handleCsvClick after the fetch, and the render that follows: the list
\* is mapped when the modal is open, which throws on a value without map
IdentifySettled ==
  /\ viewer.req.action = "identify"
  /\ viewer.req.stage \in {"responded", "rejected"}
  /\ LET shown == ShownTables(viewer.req) IN
     viewer' = [viewer EXCEPT
       !.availableTables = shown.tables, !.isArray = shown.isArray,
       !.isLoadingTables = FALSE,
       !.crashed = viewer.showCsvModal /\ ~shown.isArray,
       !.identified = Append(@, viewer.req),
       !.req = IdleRequest]
  /\ UNCHANGED <<storage, chat, clientVars, ops, lastSave, upload, created>>

\* the close button of the modal
CloseCsvModal ==
  /\ viewer.showCsvModal /\ ~viewer.crashed
  /\ viewer' = [viewer EXCEPT !.showCsvModal = FALSE]
  /\ UNCHANGED <<storage, chat, clientVars, ops, lastSave, upload, created>>

\* handleTableSelect up to the fetch, on a listed table
HandleTableSelect(k) ==
  /\ viewer.showCsvModal /\ ~viewer.isLoadingTables /\ ~viewer.isExporting
  /\ ~viewer.crashed /\ viewer.isArray
  /\ k \in 1..Len(viewer.availableTables)
  /\ viewer' = [viewer EXCEPT
       !.isExporting = TRUE,
       !.selected = [direct |-> viewer.availableTables[k].directExtraction,
                     html |-> viewer.identified[Len(viewer.identified)].html],
       !.exported = IdleRequest,
       !.req = [IdleRequest EXCEPT !.action = "extract",
                  !.html = viewer.html, !.stage = "received",
                  !.tableId = viewer.availableTables[k].id,
                  !.tableName = viewer.availableTables[k].name]]
  /\ UNCHANGED <<storage, chat, clientVars, ops, lastSave, upload, created>>

\* handleTableSelect after the fetch
ExtractSettled ==
  /\ viewer.req.action = "extract"
  /\ viewer.req.stage \in {"responded", "rejected"}
  /\ LET ok == viewer.req.stage = "responded" /\ viewer.req.status = 200
         got == ok /\ viewer.req.csvData # <<>>
     IN viewer' = [viewer EXCEPT
          !.download = IF got THEN viewer.req.csvData ELSE <<>>,
          !.downloaded = got,
          !.alert = IF viewer.req.stage = "rejected"
                    THEN "Export failed. Please try again." ELSE @,
          !.exported = viewer.req,
          !.isExporting = FALSE, !.showCsvModal = FALSE,
          !.req = IdleRequest]
  /\ UNCHANGED <<storage, chat, clientVars, ops, lastSave, upload, created>>

\* the structural pass over every markup drawn: one viewer, whose markup
\* stays as rendered; a model call, where the route makes one, fails
NextTables ==
  \/ \E h \in Htmls : Render(h)
  \/ HandleCsvClick
  \/ ExportIdentify
  \/ ExportExtract
  \/ ExportModelRejects
  \/ IdentifySettled
  \/ \E k \in 1..Len(viewer.availableTables) : HandleTableSelect(k)
  \/ ExtractSettled

SpecTables == Init /\ [][NextTables]_vars

\* the markups of the whole export flow: a table, tables with items,
\* items only, and a chart without either
ExportHtmls ==
  {Document(<<Grid(1, 2)>>, <<>>), MixedHtml, ChartHtml,
   Document(<<>>, <<Item([f \in {"item-name", "quantity"} |-> PlainCell], FALSE)>>)}

NextExport ==
  \/ \E h \in ExportHtmls : Render(h)
  \/ \E h \in ChangedHtmls : MarkupChanged(h)
  \/ HandleCsvClick
  \/ ExportIdentify
  \/ ExportExtract
  \/ \E block \in IdentifyBlocks \cup ExtractBlocks : ExportModelResolves(block)
  \/ ExportModelRejects
  \/ ExportFetchRejected
  \/ IdentifySettled
  \/ CloseCsvModal
  \/ \E k \in 1..Len(viewer.availableTables) : HandleTableSelect(k)
  \/ ExtractSettled

SpecExport == Init /\ [][NextExport]_vars

\* ================================================================ claims
\* a step in which an activation of loadOrGenerate or
\* sendMessageWithContent ends with the outcome kind
Ends(kind) == settled'.n # settled.n /\ settled'.kind = kind

\* markup with null and the empty text taken as no markup
Markup(v) == IF Truthy(v) THEN v ELSE <<>>

\* C1: when a cancelled generation call (initial generation or turn) is
\* handled, the persisted markup is what it was when the call was issued,
\* the displayed markup is not changed, nothing is written to the store and
\* the transcript, which holds what it held before the call and the user
\* instruction of the turn, grows by exactly one entry, the cancellation
\* notice.
C1_CancelKeepsMarkup ==
  [][Ends("cancelled") =>
       /\ storage' = storage
       /\ storage'[FileId].visualization = settled'.of.preStored
       /\ visualization' = visualization
       /\ visualization' = settled'.of.preShown
       /\ messages' = Append(messages,
            Entry("assistant", IF settled'.of.kind = "init"
                               THEN InitCancelNotice ELSE TurnCancelNotice))
       /\ messages = IF settled'.of.kind = "init" THEN <<>>
                     ELSE Append(settled'.of.preMessages,
                                 Entry("user", settled'.of.userMessage))]_vars

C1_Witness ==
  /\ settled.kind = "cancelled"
  /\ settled.of.kind = "turn"
  /\ Truthy(visualization)
  /\ Len(messages) >= 3

\* the transcript a successful turn leaves: the prior transcript, the user
\* instruction, the assistant message (the default text when it is empty)
ExtendedTranscript(i) ==
  i.preMessages \o
  <<Entry("user", i.userMessage),
    Entry("assistant", IF i.response.message # <<>>
                       THEN i.response.message ELSE TurnDefaultReply)>>

SuccessfulTurnEnds ==
  /\ settled'.n # settled.n
  /\ settled'.of.kind = "turn"
  /\ settled'.kind \in {"update", "answer"}

DelimiterPresent(text) == \E k \in 1..Len(text) : text[k] = MARKER

FencedBlock(s) ==
  /\ Len(s) >= 4
  /\ s[1] = FENCE /\ s[Len(s)] = FENCE /\ s[Len(s) - 1] = NL
  /\ LET o == IF s[2] = TAG THEN 3 ELSE 2 IN
     Len(s) >= o + 2 /\ s[o] = NL

BlockBody(s) ==
  LET o == IF s[2] = TAG THEN 3 ELSE 2 IN SubSeq(s, o + 1, Len(s) - 2)

\* C3, as claimed: without the delimiter the result is markup null and the
\* trimmed text; with it the message is the trimmed text before its first
\* occurrence and the markup the text after it, which, where that text is a
\* fenced block, is the body of the block without its fencing.
C3_AsClaimed ==
  \A r \in 1..Len(chat) :
    (chat[r].stage = "done" /\ chat[r].status = 200) =>
      LET text == chat[r].text
          first == CHOOSE k \in 1..Len(text) :
                     text[k] = MARKER /\ \A j \in 1..(k - 1) : text[j] # MARKER
          rest == Trim(SubSeq(text, first + 1, Len(text)))
      IN IF ~DelimiterPresent(text)
         THEN chat[r].visualization = Null /\ chat[r].reply = Trim(text)
         ELSE /\ chat[r].reply = Trim(SubSeq(text, 1, first - 1))
              /\ FencedBlock(rest) => chat[r].visualization = Trim(BlockBody(rest))
              /\ (rest = <<>> \/ (rest[1] # FENCE /\ rest[Len(rest)] # FENCE))
                   => chat[r].visualization = rest

\* C4: the mode of a turn is Refining exactly when the current markup is
\* not empty, the prior transcript is not empty and the instruction matches
\* none of the needs-original-data patterns; every other turn, and any turn
\* with an empty transcript and empty markup, is NeedsContext.
C4_ModeSelection ==
  \A r \in 1..Len(chat) :
    LET q == chat[r] IN
    q.mode # "" =>
      /\ q.mode \in {"Refining", "NeedsContext"}
      /\ q.mode = "Refining" <=>
           /\ q.currentVisualization \notin {<<>>, Null}
           /\ q.history # <<>>
           /\ ~NeedsFullContext(q.message)
      /\ (q.currentVisualization \in {<<>>, Null} /\ q.history = <<>>)
           => q.mode = "NeedsContext"
      /\ q.message \in {<<"Reload">>, <<"ALL", "the", "data">>, <<"Make", "ALL", "data">>}
           => q.mode = "NeedsContext"
      /\ (/\ q.message \in {<<"Make", "the", "data">>, <<"ALL">>, <<"data", "ALL", "the">>}
          /\ q.currentVisualization \notin {<<>>, Null}
          /\ q.history # <<>>)
           => q.mode = "Refining"

C4_Witness ==
  \E r \in 1..Len(chat) :
    /\ chat[r].mode = "NeedsContext"
    /\ chat[r].currentVisualization \notin {<<>>, Null}
    /\ chat[r].history # <<>>
    /\ chat[r].message = <<"Make", "ALL", "data">>

\* C5: in one session at most one activation is under way at any time: no
\* message, typed or pending, is sent while the initial generation or
\* another turn has not finished, so at most one generation call is in
\* flight.
C5_OneInFlight ==
  /\ Cardinality(invs) <= 1
  /\ Cardinality({r \in 1..Len(chat) :
                    chat[r].stage \in {"received", "loading", "calling", "done"}}) <= 1
  /\ invs # {} => isLoading

C5_Witness ==
  /\ pendingMessage # <<>>
  /\ \E i \in invs : i.kind = "turn" /\ i.stage = "chat" /\ ~i.aborted

\* C6: a failed generation call ends its turn in one step: one apology
\* entry is appended, the displayed markup and the store are not changed,
\* the session is idle again and no request is issued in that step; and no
\* request is ever issued without a page load, a sent message or an upload
\* of its own, so a failed call is not made again.
C6_FailureIsTerminal ==
  /\ [][Ends("failed") =>
          /\ messages' = Append(messages,
               Entry("assistant", IF settled'.of.kind = "init"
                                  THEN InitApology ELSE TurnApology))
          /\ visualization' = visualization
          /\ storage' = storage
          /\ Len(chat') = Len(chat)
          /\ ~isLoading' /\ invs' = {}]_vars
  /\ [](Len(chat) <= intents)

C6_Witness ==
  /\ settled.kind = "failed"
  /\ settled.of.kind = "turn"
  /\ Truthy(visualization)
  /\ ~isLoading

IsNewDataMessage(m) ==
  Len(m) >= 4 /\ SubSeq(m, 1, 4) = <<"New", "data", "files", "added:">>

\* C8, as claimed: a turn with the automatic message of an upload runs in
\* the full-context flow, and the text of every source fragment of the
\* document is part of what is sent to the model.
C8_AsClaimed ==
  \A r \in 1..Len(chat) :
    (IsNewDataMessage(chat[r].message) /\ chat[r].calls > 0) =>
      /\ chat[r].mode = "NeedsContext"
      /\ \A k \in 1..Len(storage[FileId].sourceFiles) :
           \E p \in 1..Len(chat[r].sent) :
             /\ chat[r].sent[p].kind = "source"
             /\ chat[r].sent[p].text = storage[FileId].sourceFiles[k].text

C10_LastWriteWins ==
  lastSave.n > 0 =>
    /\ storage[FileId].visualization = lastSave.pair.visualization
    /\ storage[FileId].chatHistory = lastSave.pair.chatHistory
    /\ \E s \in Sessions, k \in 1..MaxSaves :
         /\ storage[FileId].visualization = SavePair(s, k).visualization
         /\ storage[FileId].chatHistory = SavePair(s, k).chatHistory

C10_Witness ==
  /\ lastSave.n >= 2
  /\ lastSave.overlapped
  /\ ops = {}

\* C11: whatever state saves, renames, additions and removals of source
\* files, deletions and uploads are applied, in any interleaving of their
\* reads and writes, every stored document has the category it was created
\* with.
C11_CategoryImmutable ==
  \A id \in DOMAIN storage :
    id \in DOMAIN created /\ storage[id].fileType = created[id]

C11_Witness ==
  /\ FileId \in DOMAIN storage
  /\ lastSave.n >= 2
  /\ storage[FileId].displayName = "Renamed"
  /\ storage[FileId].sourceFiles # InitStorage[FileId].sourceFiles
  /\ storage[FileId].fileType = "invoice"

\* C12, as claimed: the category of every classification result, and the
\* category stored on every document, is one of schedule, invoice,
\* healthcare, unknown.
C12_AsClaimed ==
  /\ \A u \in 1..Len(upload) : \A k \in 1..Len(upload[u].extractions) :
       upload[u].extractions[k].fileType \in FileTypes
  /\ \A id \in DOMAIN storage : storage[id].fileType \in FileTypes

\* the text holds no object literal that parses
NoObjectLiteral(text) ==
  ~\E i \in 1..Len(text), j \in 1..Len(text) :
     /\ i < j /\ text[i] = LBRACE /\ text[j] = RBRACE
     /\ \A k \in (i + 1)..(j - 1) : text[k] \in DOMAIN Members

RECURSIVE FieldCounts(_, _, _)
FieldCounts(csv, inQuotes, fields) ==
  IF csv = <<>> THEN <<fields>>
  ELSE LET t == Head(csv) IN
       IF t = QUOTE THEN FieldCounts(Tail(csv), ~inQuotes, fields)
       ELSE IF inQuotes THEN FieldCounts(Tail(csv), inQuotes, fields)
       ELSE IF t = NL THEN <<fields>> \o FieldCounts(Tail(csv), FALSE, 1)
       ELSE IF t \in {COMMA, MONEY, DOLLARMONEY}
       THEN FieldCounts(Tail(csv), FALSE, fields + 1)
       ELSE FieldCounts(Tail(csv), FALSE, fields)

\* markup with one literal table of at least one data row and nothing else
IsLiteralTable(html) ==
  /\ html.items = <<>>
  /\ Len(html.tables) = 1
  /\ Len(html.tables[1]) >= 2
  /\ \A r \in 1..Len(html.tables[1]) :
       Len(html.tables[1][r]) = Len(html.tables[1][1])

DataRows(html) == Len(html.tables[1]) - 1
HeaderWidth(html) == Len(html.tables[1][1])

\* C14: for markup with a literal table of N data rows and header width W,
\* identify answers one candidate with rowCount = N, and extract of that
\* candidate answers N+1 lines of exactly W fields each, a quoted field
\* with embedded separators counting as one field.
C14_AsClaimed ==
  /\ \A i \in 1..Len(viewer.identified) :
       LET r == viewer.identified[i] IN
       (r.stage = "responded" /\ IsLiteralTable(r.html)) =>
         /\ Len(r.tables) = 1
         /\ r.tables[1].rowCount = DataRows(r.html)
  /\ LET e == viewer.exported IN
     (/\ e.action = "extract" /\ e.stage = "responded"
      /\ IsLiteralTable(e.html) /\ e.tableId = "table_1") =>
       LET counts == FieldCounts(e.csvData, FALSE, 1) IN
       /\ Len(counts) = DataRows(e.html) + 1
       /\ \A k \in 1..Len(counts) : counts[k] = HeaderWidth(e.html)

\* the same for tables whose cells hold no line break: the part of C14
\* the structural pass does deliver
C14_WithoutLineBreaks ==
  LET clean(html) ==
        \A r \in 1..Len(html.tables[1]) : \A c \in 1..Len(html.tables[1][r]) :
          \A k \in 1..Len(Trim(html.tables[1][r][c])) :
            Trim(html.tables[1][r][c])[k] # NL
  IN
  /\ \A i \in 1..Len(viewer.identified) :
       LET r == viewer.identified[i] IN
       (r.stage = "responded" /\ IsLiteralTable(r.html) /\ clean(r.html)) =>
         /\ Len(r.tables) = 1
         /\ r.tables[1].rowCount = DataRows(r.html)
  /\ LET e == viewer.exported IN
     (/\ e.action = "extract" /\ e.stage = "responded"
      /\ IsLiteralTable(e.html) /\ e.tableId = "table_1" /\ clean(e.html)) =>
       LET counts == FieldCounts(e.csvData, FALSE, 1) IN
       /\ Len(counts) = DataRows(e.html) + 1
       /\ \A k \in 1..Len(counts) : counts[k] = HeaderWidth(e.html)

\* markup of item elements only, which share at least two sub-fields
SharesTwoFields(html) ==
  /\ html.tables = <<>>
  /\ Len(html.items) >= 1
  /\ Cardinality({f \in ItemFields :
                    \A i \in 1..Len(html.items) : f \in DOMAIN html.items[i].fields}) >= 2

\* the sub-fields present across the elements, and the marker class
UnionOfFields(items) ==
  [fields |-> UNION {DOMAIN items[i].fields : i \in 1..Len(items)},
   special |-> \E i \in 1..Len(items) : items[i].special]

\* the header cells of delimited text
HeaderOf(csvData) ==
  LET breaks == {k \in 1..Len(csvData) : csvData[k] = NL}
      end == IF breaks = {} THEN Len(csvData)
             ELSE (CHOOSE k \in breaks : \A j \in breaks : k <= j) - 1
  IN SelectSeq(SubSeq(csvData, 1, end), LAMBDA t : t # COMMA)

\* one element that carries every sub-field of the union, and the marker
\* class when any element has it
Carrier(items) ==
  <<Item([f \in UnionOfFields(items).fields |-> PlainCell],
         UnionOfFields(items).special)>>

\* C15: for item elements sharing at least two sub-fields, identify
\* answers exactly one candidate, and its columns are those of the union
\* of the sub-fields as one element carrying them all would give them:
\* they depend neither on which element carries which sub-field nor on
\* the order of the elements.
C15_StableUnionOrder ==
  /\ \A i \in 1..Len(viewer.identified) :
       LET r == viewer.identified[i] IN
       (r.stage = "responded" /\ SharesTwoFields(r.html)) =>
         /\ Len(r.tables) = 1
         /\ r.tables[1].id = "line_items"
  /\ LET e == viewer.exported IN
     (/\ e.action = "extract" /\ e.stage = "responded"
      /\ SharesTwoFields(e.html) /\ e.tableId = "line_items") =>
       /\ HeaderOf(e.csvData) =
            [k \in 1..Len(FoundSelectors(Carrier(e.html.items))) |->
               HeaderCell(FoundSelectors(Carrier(e.html.items))[k])]
       /\ {HeaderOf(e.csvData)[k] : k \in 1..Len(HeaderOf(e.csvData))} =
            {HeaderCell(f) : f \in UnionOfFields(e.html.items).fields}
            \cup (IF UnionOfFields(e.html.items).special
                  THEN {HeaderCell("special-order")} ELSE {})

\* two elements that carry different sub-fields have been exported
C15_Witness ==
  LET e == viewer.exported IN
  /\ e.action = "extract" /\ e.stage = "responded" /\ e.status = 200
  /\ SharesTwoFields(e.html) /\ e.tableId = "line_items"
  /\ Len(e.html.items) = 2
  /\ DOMAIN e.html.items[1].fields # DOMAIN e.html.items[2].fields
  /\ Len(HeaderOf(e.csvData)) = 3

\* C16: extracting a table that identify found by the structural pass, on
\* the markup identify was given, makes no model call and answers the
\* structurally computed text of the candidate with that id.
C16_NoFallbackForStructural ==
  LET e == viewer.exported IN
  (/\ e.action = "extract" /\ e.stage = "responded"
   /\ viewer.selected.direct
   /\ e.html = viewer.selected.html) =>
    /\ e.calls = 0
    /\ e.status = 200
    /\ \E k \in 1..Len(TryDirectExtraction(e.html)) :
         /\ TryDirectExtraction(e.html)[k].id = e.tableId
         /\ TryDirectExtraction(e.html)[k].csvData = e.csvData

\* the third candidate of a markup with tables and items was extracted
\* and downloaded
C16_Witness ==
  LET e == viewer.exported IN
  /\ e.action = "extract" /\ e.stage = "responded"
  /\ viewer.selected.direct
  /\ e.html = viewer.selected.html
  /\ e.html = MixedHtml
  /\ e.tableId = "line_items"
  /\ viewer.downloaded /\ viewer.download = e.csvData

\* the ids and row counts of an identify answer
IdsAndCounts(r) ==
  [k \in 1..Len(r.tables) |-> <<r.tables[k].id, r.tables[k].rowCount>>]

FailedOrMalformed(r) ==
  /\ r.calls >= 1
  /\ ~(r.status = 200 /\ r.isArray /\ Len(r.tables) > 0)

\* C18: a failed or malformed model call during identify ends as an empty
\* candidate list in the viewer, one during extract as no payload; the
\* viewer goes on and no hard error arises.
C18_AsClaimed ==
  /\ (/\ Len(viewer.identified) > 0
      /\ ~viewer.isLoadingTables
      /\ FailedOrMalformed(viewer.identified[Len(viewer.identified)])) =>
       /\ ~viewer.crashed
       /\ viewer.isArray => viewer.availableTables = <<>>
  /\ LET e == viewer.exported IN
     (e.action = "extract" /\ e.calls >= 1 /\ e.status = 500) =>
       ~viewer.downloaded

\* C19: a request in Refining mode goes to the model without the store
\* being read, under the reduced instruction set, and carries the current
\* markup and the instruction and nothing else.
C19_RefiningSendsMarkupAndInstruction ==
  \A r \in 1..Len(chat) :
    chat[r].mode = "Refining" =>
      /\ chat[r].stage \in {"calling", "done"}
      /\ chat[r].status # 404
      /\ chat[r].system = "REFINEMENT_SYSTEM_PROMPT"
      /\ chat[r].sent =
           <<Section("markup", "", chat[r].currentVisualization),
             Section("request", "", chat[r].message)>>

\* a refinement for a document the store does not hold has been answered
C19_Witness ==
  \E r \in 1..Len(chat) :
    /\ chat[r].mode = "Refining"
    /\ chat[r].fileId = "ghost"
    /\ chat[r].additionalFileIds # <<>>
    /\ Len(chat[r].history) > 0
    /\ chat[r].stage = "done" /\ chat[r].status = 200

\* the serialization of the structured payload, labelled as the route
\* that prefers it labels it
StructuredContent(file) == <<"[Structured Data - JSON]", NL>> \o file.structured

\* the context block in the order and with the content C20 states
AssembledAsClaimed(st, req) ==
  LET file == st[req.fileId] IN
  <<Section("header", file.displayName, <<file.fileType>>),
    Section("content", "",
            IF file.structured # Null THEN StructuredContent(file) ELSE file.text)>>
  \o SourceFilesContext(file.sourceFiles)
  \o AdditionalContext(st, req.additionalFileIds)
  \o (IF Truthy(req.currentVisualization)
      THEN <<Section("markup", "", req.currentVisualization)>>
      ELSE <<>>)

\* C20: the context block is the header, then the primary content (the
\* structured payload serialization when present, otherwise the raw text),
\* then the source fragments in stored order, then the cross-referenced
\* documents that exist, then the current markup if it is non-empty.
C20_AsClaimed ==
  \A r \in 1..Len(chat) :
    (chat[r].mode = "NeedsContext" /\ chat[r].sent # <<>>) =>
      SubSeq(chat[r].sent, 1, Len(chat[r].sent) - 1)
        = AssembledAsClaimed(storage, chat[r])

\* the same order with the raw text as primary content in every case
C20_OrderWithRawText ==
  \A r \in 1..Len(chat) :
    (chat[r].mode = "NeedsContext" /\ chat[r].sent # <<>>) =>
      LET sent == chat[r].sent
          kinds == [k \in 1..Len(sent) |-> sent[k].kind]
          rank(kind) == CASE kind = "header" -> 1 [] kind = "content" -> 2
                          [] kind = "source" -> 3 [] kind = "additional" -> 4
                          [] kind = "markup" -> 5 [] OTHER -> 6
      IN /\ kinds[1] = "header" /\ kinds[2] = "content"
         /\ sent[2].text = storage[chat[r].fileId].text
         /\ \A j, k \in 1..Len(sent) : j < k => rank(kinds[j]) <= rank(kinds[k])
         /\ Truthy(chat[r].currentVisualization)
              <=> (\E k \in 1..Len(sent) : kinds[k] = "markup")

\* the identify requests of the viewer: the one under way and those settled
IdentifyRequests ==
  {viewer.identified[i] : i \in 1..Len(viewer.identified)}
  \cup (IF viewer.req.action = "identify" THEN {viewer.req} ELSE {})

RECURSIVE ParseCsv(_, _, _, _)
ParseCsv(csv, inQuotes, field, row) ==
  IF csv = <<>> THEN <<Append(row, field)>>
  ELSE LET t == Head(csv) IN
       IF t = QUOTE THEN ParseCsv(Tail(csv), ~inQuotes, Append(field, t), row)
       ELSE IF inQuotes THEN ParseCsv(Tail(csv), inQuotes, Append(field, t), row)
       ELSE IF t = NL THEN <<Append(row, field)>> \o ParseCsv(Tail(csv), FALSE, <<>>, <<>>)
       ELSE IF t = COMMA THEN ParseCsv(Tail(csv), FALSE, <<>>, Append(row, field))
       ELSE ParseCsv(Tail(csv), FALSE, Append(field, t), row)

Records(csv) == ParseCsv(csv, FALSE, <<>>, <<>>)

\* the item candidate among the candidates of the structural pass
ItemCandidates(html) ==
  SelectSeq(TryDirectExtraction(html), LAMBDA t : t.id = "line_items")

\* C22: the structural pass produces the item candidate only when the
\* union of the sub-fields across the item elements has at least 2
\* sub-fields; when any element carries the marker class, one flag column
\* stands after the sub-fields, Yes for the marked elements and empty for
\* the others.
C22_AsClaimed ==
  \A i \in 1..Len(viewer.identified) :
    LET r == viewer.identified[i]
        items == r.html.items
        union == UnionOfFields(items)
        cand == ItemCandidates(r.html)
        recs == Records(cand[1].csvData)
    IN (r.stage = "responded" /\ Len(items) > 0 /\ Len(cand) > 0) =>
         /\ \E k \in 1..Len(r.tables) : r.tables[k].id = "line_items"
         /\ Cardinality(union.fields) >= 2
         /\ Len(recs) = Len(items) + 1
         /\ Len(recs[1]) = Cardinality(union.fields) + (IF union.special THEN 1 ELSE 0)
         /\ union.special =>
              /\ recs[1][Len(recs[1])] = <<"Special Order">>
              /\ \A n \in 1..Len(items) :
                   recs[n + 1][Len(recs[n + 1])] =
                     (IF items[n].special THEN <<"Yes">> ELSE <<>>)

\* the flag column as C22 states it, wherever there is an item candidate
C22_FlagColumn ==
  \A i \in 1..Len(viewer.identified) :
    LET r == viewer.identified[i]
        items == r.html.items
        union == UnionOfFields(items)
        cand == ItemCandidates(r.html)
        recs == Records(cand[1].csvData)
    IN (r.stage = "responded" /\ Len(items) > 0 /\ Len(cand) > 0) =>
         /\ Cardinality(union.fields) + (IF union.special THEN 1 ELSE 0) >= 2
         /\ Len(recs) = Len(items) + 1
         /\ Len(recs[1]) = Cardinality(union.fields) + (IF union.special THEN 1 ELSE 0)
         /\ union.special =>
              /\ recs[1][Len(recs[1])] = <<"Special Order">>
              /\ \A n \in 1..Len(items) :
                   recs[n + 1][Len(recs[n + 1])] =
                     (IF items[n].special THEN <<"Yes">> ELSE <<>>)

\* a field as C23 states it: wrapped in double quotes, embedded quotes
\* doubled, when it contains a comma or a double quote
ClaimedField(text) ==
  IF \E k \in 1..Len(text) : text[k] \in {COMMA, QUOTE, MONEY, DOLLARMONEY}
  THEN <<QUOTE>> \o DoubleQuotes(text) \o <<QUOTE>>
  ELSE text

\* C23: every delimited payload of the structural pass has the header row
\* first and the header's field count on every row; an item element that
\* lacks a sub-field has an empty field at that column, and a field with
\* a comma or a double quote is quoted with its quotes doubled.
C23_AsClaimed ==
  \A i \in 1..Len(viewer.identified) :
    LET r == viewer.identified[i]
        direct == TryDirectExtraction(r.html)
    IN r.stage = "responded" =>
         \A k \in 1..Len(direct) :
           LET recs == Records(direct[k].csvData) IN
           /\ r.tables[k].csvData = direct[k].csvData
           /\ \A n \in 1..Len(recs) : Len(recs[n]) = Len(recs[1])
           /\ direct[k].id = "line_items" =>
                LET found == FoundSelectors(r.html.items) IN
                /\ recs[1] = [c \in 1..Len(found) |-> <<HeaderCell(found[c])>>]
                /\ Len(recs) = Len(r.html.items) + 1
                /\ \A n \in 1..Len(r.html.items), c \in 1..Len(found) :
                     found[c] # "special-order" =>
                       recs[n + 1][c] =
                         (IF found[c] \in DOMAIN r.html.items[n].fields
                          THEN ClaimedField(CleanMoney(Trim(r.html.items[n].fields[found[c]]), FALSE))
                          ELSE <<>>)

\* the same for markup whose tables are rectangular and whose cells hold
\* no line break
C23_RectangularWithoutLineBreaks ==
  \A i \in 1..Len(viewer.identified) :
    LET r == viewer.identified[i]
        direct == TryDirectExtraction(r.html)
        regular ==
          \A t \in 1..Len(r.html.tables) : \A x \in 1..Len(r.html.tables[t]) :
            /\ Len(r.html.tables[t][x]) = Len(r.html.tables[t][1])
            /\ \A c \in 1..Len(r.html.tables[t][x]) :
                 \A j \in 1..Len(Trim(r.html.tables[t][x][c])) :
                   Trim(r.html.tables[t][x][c])[j] # NL
    IN (r.stage = "responded" /\ regular) =>
         \A k \in 1..Len(direct) :
           LET recs == Records(direct[k].csvData) IN
           /\ \A n \in 1..Len(recs) : Len(recs[n]) = Len(recs[1])
           /\ direct[k].id = "line_items" =>
                LET found == FoundSelectors(r.html.items) IN
                /\ recs[1] = [c \in 1..Len(found) |-> <<HeaderCell(found[c])>>]
                /\ \A n \in 1..Len(r.html.items), c \in 1..Len(found) :
                     (found[c] # "special-order"
                      /\ found[c] \notin DOMAIN r.html.items[n].fields) =>
                       recs[n + 1][c] = <<>>

\* the places where a well-formed object literal starts in the text, and
\* the literal that starts there: a brace, members, the next brace
LiteralStarts(text) ==
  {i \in 1..Len(text) :
     /\ text[i] = LBRACE
     /\ \E j \in (i + 1)..Len(text) :
          /\ text[j] = RBRACE
          /\ \A k \in (i + 1)..(j - 1) : text[k] \in DOMAIN Members}

FirstLiteral(text) ==
  LET i == CHOOSE x \in LiteralStarts(text) : \A y \in LiteralStarts(text) : x <= y
      j == CHOOSE x \in (i + 1)..Len(text) :
             text[x] = RBRACE /\ \A k \in (i + 1)..(x - 1) : text[k] # RBRACE
  IN SubSeq(text, i, j)

\* C24: classification parsing takes the first well-formed object literal
\* of the model text, whatever stands before or after it, text with braces
\* included, and returns the category, text and structured payload of
\* that object.
C24_AsClaimed ==
  \A u \in 1..Len(upload) : \A k \in 1..Len(upload[u].extractions) :
    LET c == upload[u].contents[k] IN
    (c.type = "text" /\ LiteralStarts(c.text) # {}) =>
      LET lit == FirstLiteral(c.text) IN
      /\ upload[u].extractions[k].fileType = OrElse(Property(lit, "fileType"), "unknown")
      /\ upload[u].extractions[k].structured = Property(lit, "structured")
      /\ upload[u].extractions[k].text =
           (IF OrElse(Property(lit, "extractedText"), "") = ""
            THEN c.text ELSE <<Property(lit, "extractedText")>>)

\* the same for texts with one pair of braces at most: prose before and
\* after the object, no further brace
C24_WithoutOtherBraces ==
  \A u \in 1..Len(upload) : \A k \in 1..Len(upload[u].extractions) :
    LET c == upload[u].contents[k] IN
    (/\ c.type = "text" /\ LiteralStarts(c.text) # {}
     /\ Cardinality({x \in 1..Len(c.text) : c.text[x] \in {LBRACE, RBRACE}}) = 2) =>
      LET lit == FirstLiteral(c.text) IN
      /\ upload[u].extractions[k].fileType = OrElse(Property(lit, "fileType"), "unknown")
      /\ upload[u].extractions[k].structured = Property(lit, "structured")
      /\ upload[u].extractions[k].text =
           (IF OrElse(Property(lit, "extractedText"), "") = ""
            THEN c.text ELSE <<Property(lit, "extractedText")>>)

\* transcript b extends transcript a: a is a prefix of b
Extends(b, a) == Len(a) <= Len(b) /\ SubSeq(b, 1, Len(a)) = a

\* C25: with one session on the document, every transcript written to the
\* store extends the transcript stored before it.
C25_AsClaimed ==
  [][Extends(storage'[FileId].chatHistory, storage[FileId].chatHistory)]_vars

\* the document a store operation concerns: the new document of an upload,
\* else the document of the session
Concerns(o) == IF o.kind = "create" THEN NewId(o.upload) ELSE FileId

\* C26: when a state save, a rename, a source-file addition or removal or
\* an upload concerning document A is written, the record of every other
\* document B stays in the store as it was, also when the operation
\* interleaved with a store operation on B.
C26_AsClaimed ==
  [][\A o \in ops :
       (/\ ops' = ops \ {o} /\ storage' = o.data
        /\ o.kind \in {"state", "rename", "add", "remove", "create"}) =>
         \A b \in DOMAIN storage \ {Concerns(o)} :
           b \in DOMAIN storage' /\ storage'[b] = storage[b]]_vars

\* the same for store operations that run one after the other
C26_WithoutInterleaving ==
  [][\A o \in ops :
       (/\ ops' = ops \ {o} /\ storage' = o.data
        /\ ops = {o} /\ lastSave.n = 0
        /\ o.kind \in {"state", "rename", "add", "remove", "create"}) =>
         \A b \in DOMAIN storage \ {Concerns(o)} :
           b \in DOMAIN storage' /\ storage'[b] = storage[b]]_vars

\* C27: once deleteFile(id) has returned true (the write without the document
\* has been made), the document is absent from the store in every later
\* state, operations in flight during the delete included.
C27_AsClaimed ==
  [][FileId \notin DOMAIN storage => FileId \notin DOMAIN storage']_vars

\* the deleted document stays absent when no operation that read the store
\* before the delete is still to write
C27_WithoutStaleWriter ==
  [][(/\ FileId \notin DOMAIN storage
      /\ \A o \in ops : FileId \notin DOMAIN o.data) =>
       FileId \notin DOMAIN storage']_vars

\* C28: once the markup of the session is non-empty, no step of a turn makes
\* the displayed markup empty or null or writes an empty or null markup to
\* the store, and a turn that started with markup displayed ends, whatever
\* its outcome, with markup both displayed and persisted.
C28_MarkupStaysNonEmpty ==
  [][(reloads' = reloads /\ Truthy(visualization)) =>
       /\ Truthy(visualization')
       /\ storage'[FileId].visualization # storage[FileId].visualization =>
            Truthy(storage'[FileId].visualization)
       /\ (/\ settled'.n # settled.n
           /\ settled'.of.kind = "turn"
           /\ Truthy(settled'.of.preShown)) =>
            Truthy(storage'[FileId].visualization)]_vars

\* a turn on displayed markup was answered with the delimiter followed by
\* empty markup and has ended with the markup displayed and persisted
C28_Witness ==
  /\ settled.kind = "answer"
  /\ settled.of.kind = "turn"
  /\ Truthy(settled.of.preShown)
  /\ settled.of.response.text = <<"changed", MARKER, NL>>
  /\ ~Truthy(settled.of.response.visualization)
  /\ visualization = settled.of.preShown
  /\ storage[FileId].visualization = settled.of.preShown

\* ------------------------------------------ the session under fair settling
\* Reload while the request bound leaves room for the initial generation of
\* the new page
ReloadWithinBound == Len(chat) < MaxReq /\ Reload

\* the steps that settle a request of the session: the chat route up to its
\* response, the state route, and the continuation of the awaiting client
\* what the model answers in the fair session: an answer and an update
LiveTexts ==
  { <<"answer">>,
    <<"changed", NL, MARKER, NL, "<div>1</div>">> }

RequestsSettle ==
  \/ \E i \in invs : StateLoaded(i)
  \/ \E i \in invs : InitResolved(i)
  \/ \E i \in invs : TurnResolved(i)
  \/ \E i \in invs : StateSaved(i)
  \/ \E i \in invs : AbortHandled(i)
  \/ \E r \in 1..Len(chat) : ChatStart(r)
  \/ \E r \in 1..Len(chat) : ChatLoad(r)
  \/ \E r \in 1..Len(chat), t \in LiveTexts : ModelRespond(r, t)
  \/ \E r \in 1..Len(chat) : ModelFail(r)

NextLive ==
  \/ LoadOrGenerate
  \/ SendMessage(<<"Make", "it", "blue">>)
  \/ PendingMessageEffect
  \/ CancelRequest
  \/ \E n \in UploadNames : UploadAdditionalFiles(n)
  \/ ReloadWithinBound
  \/ \E r \in 1..Len(chat) : FetchRejected(r)
  \/ RequestsSettle

SpecLive == Init /\ [][NextLive]_vars /\ WF_vars(RequestsSettle)

\* C29: the abort controller is set only while the session is loading, and
\* every turn (initial generation or user message) eventually ends with the
\* session idle, isLoading false and the abort controller cleared, given
\* that the requests eventually settle.
C29_TurnsEnd ==
  /\ [](abortControllerRef # 0 => isLoading)
  /\ isLoading ~> (~isLoading /\ abortControllerRef = 0)

\* a user turn that followed the initial load was cancelled and has
\* ended: the session is idle and the abort controller cleared
C29_Witness ==
  /\ settled.n = 2
  /\ settled.kind = "cancelled"
  /\ settled.of.kind = "turn"
  /\ invs = {}
  /\ ~isLoading
  /\ abortControllerRef = 0

\* an amount without its thousands separator and without a currency symbol
NOSIGNMONEY == "1234.56"

\* a cell as C30 states it: trimmed, the thousands separators of its
\* amounts removed, then quoted for the delimited text
SeparatorsRemoved(text) ==
  [k \in 1..Len(text) |->
     CASE text[k] = DOLLARMONEY -> CLEANMONEY
       [] text[k] = MONEY -> NOSIGNMONEY
       [] OTHER -> text[k]]

ClaimedCell(textContent) == QuoteField(SeparatorsRemoved(Trim(textContent)))

\* the cells of every table candidate are the claimed ones, for rectangular
\* tables whose cells hold no line break and, with signedOnly, no amount
\* without a currency symbol
CellsAsClaimed(signedOnly) ==
  \A i \in 1..Len(viewer.identified) :
    LET r == viewer.identified[i]
        direct == TryDirectExtraction(r.html)
        regular ==
          \A t \in 1..Len(r.html.tables) : \A x \in 1..Len(r.html.tables[t]) :
            /\ Len(r.html.tables[t][x]) = Len(r.html.tables[t][1])
            /\ \A c \in 1..Len(r.html.tables[t][x]) :
                 \A j \in 1..Len(Trim(r.html.tables[t][x][c])) :
                   /\ Trim(r.html.tables[t][x][c])[j] # NL
                   /\ signedOnly => Trim(r.html.tables[t][x][c])[j] # MONEY
    IN (r.stage = "responded" /\ regular) =>
         \A t \in 1..Len(r.html.tables), k \in 1..Len(direct) :
           direct[k].id = TableId(t) =>
             LET recs == Records(direct[k].csvData)
                 rows == r.html.tables[t]
             IN /\ r.tables[k].csvData = direct[k].csvData
                /\ Len(recs) = Len(rows)
                /\ \A x \in 1..Len(rows) : \A c \in 1..Len(rows[x]) :
                     recs[x][c] = ClaimedCell(rows[x][c])

\* C30: the structural pass changes the text of a table cell only by
\* trimming it, by removing the thousands separators of a currency amount
\* and by CSV quoting; a cell without a thousands separator keeps its
\* characters and a number without a currency symbol gets none.
C30_AsClaimed == CellsAsClaimed(FALSE)

\* the same for tables whose amounts all carry their currency symbol
C30_SignedAmounts == CellsAsClaimed(TRUE)

====
